---- MODULE Spec2Model ----
(***************************************************************************)
(* A model of the hand-analysis engine of Mahjong_Training:                *)
(*   js/utils/tile-utils.js     tiles, ids, per-kind counting              *)
(*   js/utils/tenpai-utils.js   canWin, detectTenpai, detectTenpai7Or10,   *)
(*                              getTenpaiType, generateTenpaiHand          *)
(*   js/utils/heqie-utils.js    detectTenpaiPartial, evaluateHeqieOptions  *)
(*   js/utils/hand-generator.js genMelds and the six constructors          *)
(*                                                                         *)
(* A JS object used as a dictionary is a function whose DOMAIN is the set  *)
(* of its keys; an array is a sequence; a Set that is only iterated is a   *)
(* duplicate-free sequence in insertion order.  The wait-pattern labels    *)
(* are written in pinyin (the keys of TENPAI_PATTERNS, lower case).        *)
(***************************************************************************)
EXTENDS Integers, Sequences, FiniteSets, TLC

VARIABLES
  op,          \* the operation the run exercises
  pc,          \* position of the running call: "call", "done", or a step of the generator
  counts,      \* kind-count map handed to canWin
  hand,        \* hand array handed to a detector or to evaluateHeqieOptions; the
               \* hand a constructor is building (generated.hand)
  displaySize, \* the displaySize argument
  result,      \* value returned by the call
  tape,        \* the values Math.random() returns, taken in turn (cyclically)
  rpos,        \* how many values of the tape have been taken (modulo its length)
  tileCount, difficulty, maxAttempts,   \* arguments of generateTenpaiHand
  attempt, selectedType, honorTripletsCount,
  displayHand, detectResult,            \* locals of generateTenpaiHand
  curSuit, base, edgeRanks, waitRank,   \* locals of the running constructor (curSuit: suit)
  excludeRanks, numMelds, rankCounts, waits,
  usedRanks, generated, attempts,       \* locals of genMelds
  targetMeldsArg,  \* the targetMelds argument of canFormTenpaiStructure
  waitingTilesArg, \* the caller's array handed to getTenpaiType as waitingTiles
  calls,           \* the calls made so far in the run: arguments and returned value
  duration,        \* the duration option of createTimer, in seconds
  startTime, elapsed, intervalId, isRunning, isPaused,  \* the state of a timer
  now,             \* the value of Date.now(), in milliseconds
  intervals,       \* the handles of the intervals the host is running
  nextHandle,      \* the handle the next setInterval returns
  finishCalls,     \* the calls of onFinish since the timer was last started
  finishSeenRunning  \* some call of onFinish found the timer not stopped

genVars ==
  <<tape, rpos, tileCount, difficulty, maxAttempts, attempt, selectedType,
    honorTripletsCount, displayHand, detectResult, curSuit, base, edgeRanks,
    waitRank, excludeRanks, numMelds, rankCounts, waits, usedRanks, generated,
    attempts>>

timerVars ==
  <<duration, startTime, elapsed, intervalId, isRunning, isPaused, now, intervals,
    nextHandle, finishCalls, finishSeenRunning>>

argVars == <<targetMeldsArg, waitingTilesArg, calls, timerVars>>

vars == <<op, pc, counts, hand, displaySize, result, argVars, genVars>>

null == "null"

\* the state of a timer that createTimer has just returned, startTime null
\* (an empty sequence here, a one-element sequence once it holds a number) and
\* intervalId null (0 here: every handle is a positive number); no interval runs
TimerCreated ==
  /\ startTime = <<>> /\ elapsed = 0 /\ intervalId = 0
  /\ isRunning = FALSE /\ isPaused = FALSE
  /\ now = 0 /\ intervals = {} /\ nextHandle = 1
  /\ finishCalls = 0 /\ finishSeenRunning = FALSE

\* the timer variables in a run without a timer
TimerIdle == duration = 0 /\ TimerCreated

\* the argument variables in a run that does not use them
ArgIdle == targetMeldsArg = 0 /\ waitingTilesArg = <<>> /\ calls = <<>> /\ TimerIdle

\* the generator's variables in a run that does not call the generator
GenIdle ==
  /\ tape = <<>> /\ rpos = 0
  /\ tileCount = 0 /\ difficulty = null /\ maxAttempts = 0
  /\ attempt = 0 /\ selectedType = null /\ honorTripletsCount = 0
  /\ displayHand = <<>>
  /\ detectResult = [isTenpai |-> FALSE, waitingTiles |-> <<>>, tenpaiType |-> null]
  /\ curSuit = null /\ base = 0 /\ edgeRanks = <<>> /\ waitRank = 0
  /\ excludeRanks = <<>> /\ numMelds = 0 /\ rankCounts = <<>> /\ waits = <<>>
  /\ usedRanks = {} /\ generated = 0 /\ attempts = 0

(***************************************************************************)
(* tile-utils.js                                                           *)
(***************************************************************************)
SUITS == [TONG |-> "tong", TIAO |-> "tiao", WAN |-> "wan", HONOR |-> "honor"]

HONOR_TILES == <<"dong", "nan", "xi", "bei", "bai", "fa", "zhong">>

NumeralSuits == {SUITS.TONG, SUITS.TIAO, SUITS.WAN}

Includes(seq, x) == \E i \in DOMAIN seq : seq[i] = x

\* `${suit}${rank}` for the numeral suits, tabulated once
IdOf == [s \in NumeralSuits |-> [r \in 0..12 |-> s \o ToString(r)]]

TileId(suit, rank) == IdOf[suit][rank]

\* the three checks of createTile that throw
createTileThrows(suit, rank) ==
  IF suit = SUITS.HONOR THEN ~Includes(HONOR_TILES, rank)
  ELSE IF suit \notin NumeralSuits THEN TRUE
  ELSE rank < 1 \/ rank > 9

\* createTile: the tile, or "throw" for an invalid suit or rank
createTile(suit, rank) ==
  IF createTileThrows(suit, rank) THEN "throw"
  ELSE IF suit = SUITS.HONOR
    THEN [suit |-> SUITS.HONOR, rank |-> rank, id |-> rank]
  ELSE [suit |-> suit, rank |-> rank, id |-> TileId(suit, rank)]

\* A rank argument as a JS value: a number or a string.  `rank < 1 || rank > 9`
\* is false for a string that is not numeric (the comparison is with NaN).
JsNumber(n) == [type |-> "number", value |-> n]

JsString(str) == [type |-> "string", value |-> str]

\* a slip in createTile: the test rank > 9 is left out
createTileThrowsOnNoUpperTest(suit, v) ==
  IF suit = SUITS.HONOR
    THEN ~(v.type = "string" /\ Includes(HONOR_TILES, v.value))
  ELSE IF suit \notin NumeralSuits THEN TRUE
  ELSE v.type = "number" /\ v.value < 1

\* the three checks of createTile that throw, on a rank of either type
createTileThrowsOn(suit, v) ==
  IF suit = SUITS.HONOR
    THEN ~(v.type = "string" /\ Includes(HONOR_TILES, v.value))
  ELSE IF suit \notin NumeralSuits THEN TRUE
  ELSE v.type = "number" /\ (v.value < 1 \/ v.value > 9)

\* the tile createTile returns when it does not throw; the rank keeps its type
createTileOn(suit, v) ==
  IF suit = SUITS.HONOR
    THEN [suit |-> SUITS.HONOR, rank |-> v, id |-> v.value]
  ELSE [suit |-> suit, rank |-> v,
        id |-> suit \o (IF v.type = "number" THEN ToString(v.value) ELSE v.value)]

\* counts[id] || 0
Get(c, id) == IF id \in DOMAIN c THEN c[id] ELSE 0

\* c[id] = v on a dictionary
Put(c, id, v) ==
  IF id \in DOMAIN c THEN [c EXCEPT ![id] = v]
  ELSE [k \in DOMAIN c \cup {id} |-> IF k = id THEN v ELSE c[k]]

\* countTiles: one key per kind present, keyed by tile.id
countTiles(tiles) ==
  [id \in {tiles[i].id : i \in DOMAIN tiles} |->
     Cardinality({i \in DOMAIN tiles : tiles[i].id = id})]

\* a slip in validateHand: every hand passes
validateHandAnyCount(tiles) == TRUE

\* validateHand: no kind more than 4 times
validateHand(tiles) ==
  LET c == countTiles(tiles) IN \A id \in DOMAIN c : c[id] <= 4

tilesEqual(tile1, tile2) == tile1.suit = tile2.suit /\ tile1.rank = tile2.rank

(***************************************************************************)
(* tenpai-utils.js: the decomposer                                         *)
(***************************************************************************)
\* tileId.match(/^(tong|tiao|wan)(\d+)$/): the ids the pattern matches, with
\* their suit and rank (the ids in use carry one digit)
NumeralIds == {IdOf[s][r] : s \in NumeralSuits, r \in 0..12}

MatchTable ==
  [id \in NumeralIds |->
     CHOOSE p \in NumeralSuits \X (0..12) : IdOf[p[1]][p[2]] = id]

IsNumeralId(tileId) == tileId \in NumeralIds

ParseNumeral(tileId) == MatchTable[tileId]

canFormTriplet(c, tileId) == Get(c, tileId) >= 3

canFormSequence(c, suit, rank) ==
  IF suit = SUITS.HONOR THEN FALSE
  ELSE IF rank < 1 \/ rank > 7 THEN FALSE
  ELSE /\ Get(c, TileId(suit, rank)) >= 1
       /\ Get(c, TileId(suit, rank + 1)) >= 1
       /\ Get(c, TileId(suit, rank + 2)) >= 1

canFormPair(c, tileId) == Get(c, tileId) >= 2

removeTriplet(c, tileId) == Put(c, tileId, Get(c, tileId) - 3)

\* a slip in removeSequence: the third tile of the run stays in the map
removeSequenceTwoTiles(c, suit, rank) ==
  LET c1 == Put(c, TileId(suit, rank), Get(c, TileId(suit, rank)) - 1)
  IN  Put(c1, TileId(suit, rank + 1), Get(c1, TileId(suit, rank + 1)) - 1)

removeSequence(c, suit, rank) ==
  LET c1 == Put(c, TileId(suit, rank), Get(c, TileId(suit, rank)) - 1)
      c2 == Put(c1, TileId(suit, rank + 1), Get(c1, TileId(suit, rank + 1)) - 1)
  IN  Put(c2, TileId(suit, rank + 2), Get(c2, TileId(suit, rank + 2)) - 1)

removePair(c, tileId) == Put(c, tileId, Get(c, tileId) - 2)

RECURSIVE SumOver(_, _)
SumOver(c, keys) ==
  IF keys = {} THEN 0
  ELSE LET k == CHOOSE x \in keys : TRUE IN c[k] + SumOver(c, keys \ {k})

\* Object.values(counts).reduce((sum, count) => sum + count, 0)
TotalTiles(c) == SumOver(c, DOMAIN c)

\* Object.values(counts).reduce((sum, count) => sum + Math.max(0, count), 0)
Remaining(c) ==
  SumOver([k \in DOMAIN c |-> IF c[k] > 0 THEN c[k] ELSE 0], DOMAIN c)

\* tryWin: every loop returns true on the first success, so each is an \E
RECURSIVE tryWin(_, _, _)
tryWin(c, meldsCount, pairTileId) ==
  IF meldsCount = 4 /\ pairTileId # null THEN Remaining(c) = 0
  ELSE IF meldsCount = 4
    THEN \E tileId \in DOMAIN c :
           c[tileId] >= 2 /\ tryWin(removePair(c, tileId), 4, tileId)
  ELSE \/ /\ pairTileId = null
          /\ \E tileId \in DOMAIN c :
               c[tileId] >= 2 /\ tryWin(removePair(c, tileId), meldsCount, tileId)
       \/ \E tileId \in DOMAIN c :
            /\ c[tileId] >= 3 /\ canFormTriplet(c, tileId)
            /\ tryWin(removeTriplet(c, tileId), meldsCount + 1, pairTileId)
       \/ \E tileId \in DOMAIN c :
            /\ IsNumeralId(tileId) /\ c[tileId] > 0
            /\ LET m == ParseNumeral(tileId) IN
                 /\ canFormSequence(c, m[1], m[2])
                 /\ tryWin(removeSequence(c, m[1], m[2]), meldsCount + 1, pairTileId)

canWin(c) ==
  IF TotalTiles(c) # 14 THEN FALSE ELSE tryWin(c, 0, null)

(***************************************************************************)
(* tenpai-utils.js: getAllPossibleTileIds, getTenpaiType, detectTenpai     *)
(***************************************************************************)
\* Set.add on a Set kept in insertion order
SetAdd(seq, x) == IF Includes(seq, x) THEN seq ELSE Append(seq, x)

RECURSIVE SetAddAll(_, _)
SetAddAll(seq, xs) ==
  IF xs = <<>> THEN seq ELSE SetAddAll(SetAdd(seq, Head(xs)), Tail(xs))

\* the distinct numeral suits of the hand, in order of first appearance
RECURSIVE SuitsOf(_)
SuitsOf(h) ==
  IF h = <<>> THEN <<>>
  ELSE LET before == SuitsOf(SubSeq(h, 1, Len(h) - 1))
           tile   == h[Len(h)]
       IN  IF tile.suit \in NumeralSuits THEN SetAdd(before, tile.suit)
           ELSE before

RECURSIVE AllRanksOf(_)
AllRanksOf(suits) ==
  IF suits = <<>> THEN <<>>
  ELSE [rank \in 1..9 |-> TileId(Head(suits), rank)] \o AllRanksOf(Tail(suits))

\* a slip in getAllPossibleTileIds: only the kinds the hand holds are candidates
getAllPossibleTileIdsOwnOnly(h) ==
  SetAddAll(<<>>, [i \in DOMAIN h |->
                     IF h[i].suit = SUITS.HONOR THEN h[i].rank ELSE h[i].id])

\* getAllPossibleTileIds(hand): the ids of the hand's own tiles (tile.rank for
\* an honor tile, tile.id otherwise), then ranks 1..9 of every numeral suit
\* the hand holds
getAllPossibleTileIds(h) ==
  LET own == [i \in DOMAIN h |->
                IF h[i].suit = SUITS.HONOR THEN h[i].rank ELSE h[i].id]
  IN  SetAddAll(SetAddAll(<<>>, own), AllRanksOf(SuitsOf(h)))

TENPAI_PATTERNS ==
  [LIANGMIAN |-> "liangmian", DANQI |-> "danqi", SANMIAN |-> "sanmian",
   KANCHAN |-> "kanchan", BIANZHANG |-> "bianzhang", DUIPENG |-> "duipeng"]

DUOMIAN == "duomian"

WEIZHI == "weizhi"

\* a slip in getTenpaiType: the sort is left out
SortByRankKeepOrder(tiles) == tiles

\* tiles.sort((a, b) => a.rank - b.rank): a stable insertion sort
RECURSIVE SortByRank(_)
SortByRank(tiles) ==
  IF Len(tiles) <= 1 THEN tiles
  ELSE LET front == SortByRank(SubSeq(tiles, 1, Len(tiles) - 1))
           last  == tiles[Len(tiles)]
           keep  == Cardinality({i \in DOMAIN front : front[i].rank <= last.rank})
       IN  SubSeq(front, 1, keep) \o <<last>> \o SubSeq(front, keep + 1, Len(front))

getTenpaiType(waitingTiles, h) ==
  IF Len(waitingTiles) = 0 THEN null
  ELSE IF Len(waitingTiles) = 1 THEN TENPAI_PATTERNS.DANQI
  ELSE
    LET bySuitKeys == {waitingTiles[i].suit : i \in DOMAIN waitingTiles}
        suitCount  == Cardinality(bySuitKeys)
    IN
    IF suitCount > 1
      THEN IF Len(waitingTiles) = 2 THEN TENPAI_PATTERNS.DUIPENG ELSE DUOMIAN
    ELSE
      LET suit == waitingTiles[1].suit IN
      IF suit = SUITS.HONOR
        THEN IF Len(waitingTiles) = 1 THEN TENPAI_PATTERNS.DANQI
             ELSE TENPAI_PATTERNS.DUIPENG
      ELSE
        LET tiles == SortByRank(waitingTiles) IN
        IF Len(tiles) = 2
          THEN LET diff == tiles[2].rank - tiles[1].rank IN
               IF diff = 1
                 THEN IF tiles[1].rank > 1 /\ tiles[2].rank < 9
                        THEN TENPAI_PATTERNS.LIANGMIAN
                      ELSE IF tiles[1].rank = 1 \/ tiles[2].rank = 9
                        THEN TENPAI_PATTERNS.BIANZHANG
                      ELSE WEIZHI
               ELSE IF diff = 2 THEN TENPAI_PATTERNS.KANCHAN
               ELSE TENPAI_PATTERNS.DUIPENG
        ELSE IF Len(tiles) = 3
          THEN LET r1 == tiles[1].rank
                   r2 == tiles[2].rank
                   r3 == tiles[3].rank
               IN  IF r2 - r1 = 1 /\ r3 - r2 = 1 THEN TENPAI_PATTERNS.SANMIAN
                   ELSE IF r2 - r1 = 3 /\ r3 - r2 = 3 THEN TENPAI_PATTERNS.SANMIAN
                   ELSE IF r2 - r1 = r3 - r2 /\ r2 - r1 > 0
                     THEN TENPAI_PATTERNS.SANMIAN
                   ELSE DUOMIAN
        ELSE DUOMIAN

\* a slip in getTenpaiType: the caller's array itself is sorted
ArrayAfterSortInPlace(waitingTiles) ==
  IF \A i \in DOMAIN waitingTiles : waitingTiles[i].suit \in NumeralSuits
    THEN SortByRank(waitingTiles)
  ELSE waitingTiles

\* the caller's array after getTenpaiType(waitingTiles, hand): the function
\* pushes the tiles into arrays of its own (bySuit[suit]) and sorts one of
\* those, so the array it was handed keeps its tiles and their order
ArrayAfterGetTenpaiType(waitingTiles) == waitingTiles

NotTenpai == [isTenpai |-> FALSE, waitingTiles |-> <<>>, tenpaiType |-> null]

\* the tile a waiting id stands for (detectTenpai, lines 499-507)
TileOfId(tileId) ==
  IF Includes(HONOR_TILES, tileId) THEN createTile(SUITS.HONOR, tileId)
  ELSE LET m == ParseNumeral(tileId) IN createTile(m[1], m[2])

\* seenIds: keep the first tile of every id
RECURSIVE UniqueById(_)
UniqueById(tiles) ==
  IF tiles = <<>> THEN <<>>
  ELSE LET before == UniqueById(SubSeq(tiles, 1, Len(tiles) - 1))
           tile   == tiles[Len(tiles)]
       IN  IF \E i \in DOMAIN before : before[i].id = tile.id THEN before
           ELSE Append(before, tile)

\* a slip in detectTenpai: the candidates of the hand's own kinds skip canWin
WinningIdsOwnKindsUntested(c, possibleTiles) ==
  SelectSeq(possibleTiles,
            LAMBDA tileId : \/ Get(c, tileId) > 0
                            \/ canWin(Put(c, tileId, Get(c, tileId) + 1)))

\* the candidates whose insertion makes canWin true, in candidate order
WinningIds(c, possibleTiles) ==
  SelectSeq(possibleTiles, LAMBDA tileId : canWin(Put(c, tileId, Get(c, tileId) + 1)))

detectTenpai(h) ==
  IF Len(h) # 13 THEN NotTenpai
  ELSE IF ~validateHand(h) THEN NotTenpai
  ELSE
    LET c             == countTiles(h)
        possibleTiles == getAllPossibleTileIds(h)
        winning       == WinningIds(c, possibleTiles)
        \* the Set of JSON strings holds one entry per distinct tile
        waitingTilesArray == SetAddAll(<<>>, [i \in DOMAIN winning |-> TileOfId(winning[i])])
        uniqueWaitingTiles == UniqueById(waitingTilesArray)
        isTenpai      == Len(uniqueWaitingTiles) > 0
    IN  [isTenpai     |-> isTenpai,
         waitingTiles |-> uniqueWaitingTiles,
         tenpaiType   |-> IF isTenpai THEN getTenpaiType(uniqueWaitingTiles, h)
                          ELSE null]

(***************************************************************************)
(* heqie-utils.js                                                          *)
(***************************************************************************)
\* tileId.replace(/\d+$/, ''): the id without its trailing digits
heqie_SuitOf(tileId) ==
  IF tileId \in NumeralIds THEN MatchTable[tileId][1] ELSE tileId

\* parseInt(tileId.substring(suit.length))
heqie_RankOf(tileId) == MatchTable[tileId][2]

\* a slip in the sum of the tiles left: a kind left once is not counted
heqie_RemainingOverOne(c) ==
  SumOver([k \in DOMAIN c |-> IF c[k] > 1 THEN c[k] ELSE 0], DOMAIN c)

\* Object.values(counts).reduce((sum, v) => sum + (v > 0 ? v : 0), 0)
heqie_Remaining(c) ==
  SumOver([k \in DOMAIN c |-> IF c[k] > 0 THEN c[k] ELSE 0], DOMAIN c)

\* a slip in the removal of a run: its third tile stays
heqie_removeRunOfTwo(c, suit, rank) ==
  LET c1 == Put(c, TileId(suit, rank), Get(c, TileId(suit, rank)) - 1)
  IN  Put(c1, TileId(suit, rank + 1), Get(c1, TileId(suit, rank + 1)) - 1)

heqie_removeRun(c, suit, rank) ==
  LET c1 == Put(c, TileId(suit, rank), Get(c, TileId(suit, rank)) - 1)
      c2 == Put(c1, TileId(suit, rank + 1), Get(c1, TileId(suit, rank + 1)) - 1)
  IN  Put(c2, TileId(suit, rank + 2), Get(c2, TileId(suit, rank + 2)) - 1)

RECURSIVE heqie_tryFormStructureRecursive(_, _, _, _)
heqie_tryFormStructureRecursive(c, meldsCount, targetMelds, pairTaken) ==
  IF meldsCount = targetMelds /\ pairTaken THEN heqie_Remaining(c) = 0
  ELSE IF meldsCount = targetMelds
    THEN \E tileId \in DOMAIN c :
           /\ c[tileId] >= 2
           /\ heqie_tryFormStructureRecursive(
                [c EXCEPT ![tileId] = @ - 2], targetMelds, targetMelds, TRUE)
  ELSE \/ /\ ~pairTaken
          /\ \E tileId \in DOMAIN c :
               /\ c[tileId] >= 2
               /\ heqie_tryFormStructureRecursive(
                    [c EXCEPT ![tileId] = @ - 2], meldsCount, targetMelds, TRUE)
       \/ \E tileId \in DOMAIN c :
            /\ c[tileId] >= 3
            /\ heqie_tryFormStructureRecursive(
                 [c EXCEPT ![tileId] = @ - 3], meldsCount + 1, targetMelds, pairTaken)
       \/ \E tileId \in DOMAIN c :
            /\ c[tileId] > 0
            /\ heqie_SuitOf(tileId) \in NumeralSuits
            /\ LET suit == heqie_SuitOf(tileId)
                   rank == heqie_RankOf(tileId)
               IN  /\ rank >= 1 /\ rank <= 7
                   /\ Get(c, TileId(suit, rank)) > 0
                   /\ Get(c, TileId(suit, rank + 1)) > 0
                   /\ Get(c, TileId(suit, rank + 2)) > 0
                   /\ heqie_tryFormStructureRecursive(
                        heqie_removeRun(c, suit, rank),
                        meldsCount + 1, targetMelds, pairTaken)

heqie_canFormTenpaiStructure(tileCounts, targetMelds, needPair) ==
  heqie_tryFormStructureRecursive(tileCounts, 0, targetMelds, ~needPair)

\* the tiles of ranks 1..9 of every numeral suit of the hand
RECURSIVE heqie_PossibleTiles(_)
heqie_PossibleTiles(suits) ==
  IF suits = <<>> THEN <<>>
  ELSE [rank \in 1..9 |-> createTile(Head(suits), rank)]
         \o heqie_PossibleTiles(Tail(suits))

detectTenpaiPartial(h, size) ==
  IF size \notin {7, 9} THEN NotTenpai
  ELSE IF \E id \in DOMAIN countTiles(h) : countTiles(h)[id] > 4 THEN NotTenpai
  ELSE IF SuitsOf(h) = <<>> THEN NotTenpai
  ELSE
    LET handCounts    == countTiles(h)
        targetMelds   == 2
        possibleTiles == heqie_PossibleTiles(SuitsOf(h))
        waitingTiles  ==
          SelectSeq(possibleTiles,
                    LAMBDA testTile :
                      heqie_canFormTenpaiStructure(
                        Put(handCounts, testTile.id, Get(handCounts, testTile.id) + 1),
                        targetMelds, TRUE))
        uniqueWaitingTiles == UniqueById(waitingTiles)
    IN  [isTenpai     |-> Len(uniqueWaitingTiles) > 0,
         waitingTiles |-> uniqueWaitingTiles,
         tenpaiType   |-> null]

\* detectTenpai13: the dynamic import of ./tenpai-utils.js succeeds, so the
\* call is detectTenpai of tenpai-utils.js
detectTenpai13(h) == detectTenpai(h)

RECURSIVE SumSeq(_)
SumSeq(ns) == IF ns = <<>> THEN 0 ELSE Head(ns) + SumSeq(Tail(ns))

Max(a, b) == IF a >= b THEN a ELSE b

\* a slip in calculateWinTileCount: the copies held are not subtracted
calculateWinTileCountAllFour(h, waitingTiles) ==
  SumSeq([i \in DOMAIN waitingTiles |-> 4])

calculateWinTileCount(h, waitingTiles) ==
  LET handCounts == countTiles(h) IN
  SumSeq([i \in DOMAIN waitingTiles |->
            Max(0, 4 - Get(handCounts, waitingTiles[i].id))])

\* a slip in the removal: every tile equal to discardTile is dropped
HandAfterDiscardOfAll(h, discardTile) ==
  SelectSeq(h, LAMBDA tile : ~tilesEqual(tile, discardTile))

\* the hand without the first tile equal to discardTile
HandAfterDiscard(h, discardTile) ==
  LET first == CHOOSE i \in DOMAIN h :
                 /\ tilesEqual(h[i], discardTile)
                 /\ \A j \in 1..(i - 1) : ~tilesEqual(h[j], discardTile)
  IN  SubSeq(h, 1, first - 1) \o SubSeq(h, first + 1, Len(h))

\* one entry of candidates
HeqieCandidate(h, discardTile) ==
  LET handAfterDiscard == HandAfterDiscard(h, discardTile)
      remainingSize    == Len(handAfterDiscard)
      tenpaiResult     ==
        IF remainingSize = 13 THEN detectTenpai13(handAfterDiscard)
        ELSE IF remainingSize = 9 THEN detectTenpaiPartial(handAfterDiscard, 9)
        ELSE IF remainingSize = 7 THEN detectTenpaiPartial(handAfterDiscard, 7)
        ELSE NotTenpai
  IN  [discardTile   |-> discardTile,
       isTenpaiAfter |-> tenpaiResult.isTenpai,
       waitingTiles  |-> tenpaiResult.waitingTiles,
       winTileCount  |-> IF tenpaiResult.isTenpai
                           THEN calculateWinTileCount(handAfterDiscard,
                                                      tenpaiResult.waitingTiles)
                         ELSE 0,
       tenpaiType    |-> tenpaiResult.tenpaiType]

\* a slip in the maximum: only the first candidate is looked at
MaxWinTileCountOfFirst(candidates) ==
  IF candidates = <<>> THEN 0 ELSE Head(candidates).winTileCount

\* Math.max(...candidates.map(c => c.winTileCount), 0)
RECURSIVE MaxWinTileCount(_)
MaxWinTileCount(candidates) ==
  IF candidates = <<>> THEN 0
  ELSE Max(Head(candidates).winTileCount, MaxWinTileCount(Tail(candidates)))

\* a slip in the filter of bestDiscards: the candidate need not be tenpai
BestDiscardsAnyCandidate(candidates, bestWinTileCount) ==
  LET kept == SelectSeq(candidates, LAMBDA c : c.winTileCount = bestWinTileCount)
  IN  [i \in DOMAIN kept |-> kept[i].discardTile]

\* candidates.filter(c => c.isTenpaiAfter && c.winTileCount === best).map(...)
BestDiscards(candidates, bestWinTileCount) ==
  LET kept == SelectSeq(candidates,
                        LAMBDA c : c.isTenpaiAfter /\ c.winTileCount = bestWinTileCount)
  IN  [i \in DOMAIN kept |-> kept[i].discardTile]

EmptyEvaluation == [candidates |-> <<>>, bestWinTileCount |-> 0, bestDiscards |-> <<>>]

evaluateHeqieOptions(h, size) ==
  IF size \notin {8, 10, 14} THEN EmptyEvaluation
  ELSE IF Len(h) # size THEN EmptyEvaluation
  ELSE
    LET uniqueTiles == UniqueById(h)
        candidates  == [i \in DOMAIN uniqueTiles |-> HeqieCandidate(h, uniqueTiles[i])]
        bestWinTileCount == MaxWinTileCount(candidates)
    IN  [candidates       |-> candidates,
         bestWinTileCount |-> bestWinTileCount,
         bestDiscards     |-> BestDiscards(candidates, bestWinTileCount)]

(***************************************************************************)
(* The reference decomposition the decomposer is compared with.  A         *)
(* partition into nMelds melds and a pair is fixed by its pair kind and    *)
(* the set of kinds taken as triplets: what is left must be runs, and the  *)
(* runs of a suit are then determined rank by rank from rank 1 upwards.    *)
(***************************************************************************)
\* number of runs the left-over tiles of one suit form, -1 when they do not;
\* a and b are the runs opened one and two ranks below r
RECURSIVE RunsFrom(_, _, _, _, _)
RunsFrom(rest, suit, r, a, b) ==
  IF r > 9 THEN (IF a = 0 /\ b = 0 THEN 0 ELSE -1)
  ELSE LET opened == Get(rest, TileId(suit, r)) - a - b
           above  == IF opened < 0 \/ (r > 7 /\ opened > 0) THEN -1
                     ELSE RunsFrom(rest, suit, r + 1, opened, a)
       IN  IF above < 0 THEN -1 ELSE opened + above

PartitionWith(c, nMelds, pairKind, triplets) ==
  LET rest == [k \in DOMAIN c |->
                 c[k] - (IF k = pairKind THEN 2 ELSE 0)
                      - (IF k \in triplets THEN 3 ELSE 0)]
      runs == [s \in NumeralSuits |-> RunsFrom(rest, s, 1, 0, 0)]
  IN  /\ \A k \in DOMAIN c : rest[k] >= 0
      /\ \A k \in DOMAIN c : ~IsNumeralId(k) => rest[k] = 0
      /\ \A s \in NumeralSuits : runs[s] >= 0
      /\ Cardinality(triplets) + runs[SUITS.WAN] + runs[SUITS.TONG]
           + runs[SUITS.TIAO] = nMelds

HasPartition(c, nMelds) ==
  \E pairKind \in {k \in DOMAIN c : c[k] >= 2} :
    \E triplets \in SUBSET {k \in DOMAIN c : c[k] >= 3} :
      PartitionWith(c, nMelds, pairKind, triplets)

(***************************************************************************)
(* What an analysis call leaves in the object it was given.  The           *)
(* decomposers first copy the map (JSON.parse(JSON.stringify(..)),         *)
(* deepCopy) and copy again before the removal of every branch; the        *)
(* detectors and evaluateHeqieOptions only read the hand array (forEach,   *)
(* for-of) and push to arrays of their own.                                *)
(***************************************************************************)
\* a slip in canWin: no copy, the first pair is removed from the caller's map
CountsAfterCanWinInPlace(c) ==
  IF \E tileId \in DOMAIN c : c[tileId] >= 2
    THEN removePair(c, CHOOSE tileId \in DOMAIN c : c[tileId] >= 2)
  ELSE c

CountsAfterCanWin(c) == c

CountsAfterCanFormTenpaiStructure(c) == c

heqie_CountsAfterCanFormTenpaiStructure(c) == c

HandAfterDetectTenpai(h) == h

HandAfterDetectTenpai7Or10(h) == h

HandAfterEvaluateHeqieOptions(h) == h

(***************************************************************************)
(* SpecWin: canWin on every 14-tile kind-count map over a bounded set of   *)
(* kinds, each kind at most 4 times.                                       *)
(***************************************************************************)
WinKindCount == 6

MaxCopies == 4

WinKindOrder ==
  <<"wan1", "wan2", "wan3", "wan4", "dong", "tong9", "tong8", "tong7", "nan">>

WinKinds == {WinKindOrder[i] : i \in 1..WinKindCount}

\* a dictionary holds a key only for a kind that is present
DropZero(f) == [k \in {x \in DOMAIN f : f[x] > 0} |-> f[k]]

WinInputs ==
  {DropZero(f) : f \in {g \in [WinKinds -> 0..MaxCopies] : TotalTiles(g) = 14}}

InitWin ==
  /\ op = "canWin"
  /\ pc = "call"
  /\ counts \in WinInputs
  /\ hand = <<>>
  /\ displaySize = 0
  /\ result = null
  /\ GenIdle
  /\ ArgIdle

CallCanWin ==
  /\ op = "canWin" /\ pc = "call"
  /\ result' = canWin(counts)
  /\ pc' = "done"
  /\ counts' = CountsAfterCanWin(counts)
  /\ UNCHANGED <<op, hand, displaySize>>
  /\ UNCHANGED <<argVars, genVars>>

NextWin == CallCanWin

SpecWin == InitWin /\ [][NextWin]_vars

\* C1: for every 14-tile kind-count map with at most 4 copies of each kind,
\* canWin returns true exactly when the tiles partition into 4 melds and a
\* pair with no tile left over.
C1_CanWinIsPartition ==
  (op = "canWin" /\ pc = "done") => (result = HasPartition(counts, 4))

\* a winning map that needs an honor triplet, runs and a pair
C1_Witness ==
  /\ op = "canWin" /\ pc = "done" /\ result = TRUE
  /\ Get(counts, "dong") = 3 /\ Get(counts, "wan2") = 4 /\ Get(counts, "wan1") = 1

(***************************************************************************)
(* SpecTenpai: detectTenpai on every 13-tile hand over a bounded set of    *)
(* kinds, each kind at most 4 times, and on the example hand of the        *)
(* specification.                                                          *)
(***************************************************************************)
TenpaiKindCount == 5

TenpaiKindOrder ==
  <<"wan1", "wan2", "wan3", "tong5", "dong", "tong6", "tong7", "nan">>

TenpaiKinds == {TenpaiKindOrder[i] : i \in 1..TenpaiKindCount}

Repeat(x, n) == [i \in 1..n |-> x]

\* the hand array holding f[k] tiles of every kind k, kind by kind
RECURSIVE HandFrom(_, _)
HandFrom(f, order) ==
  IF order = <<>> THEN <<>>
  ELSE Repeat(TileOfId(Head(order)), Get(f, Head(order))) \o HandFrom(f, Tail(order))

\* 1m 2m 3m 4m 5m 6m 7m 8m 9m 8s 8s 5p 6p
Example1Hand ==
  [rank \in 1..9 |-> createTile(SUITS.WAN, rank)]
    \o <<createTile(SUITS.TIAO, 8), createTile(SUITS.TIAO, 8),
         createTile(SUITS.TONG, 5), createTile(SUITS.TONG, 6)>>

TenpaiInputs ==
  {HandFrom(f, TenpaiKindOrder) :
     f \in {g \in [TenpaiKinds -> 0..MaxCopies] : TotalTiles(g) = 13}}
  \cup {Example1Hand}

InitTenpai ==
  /\ op = "detectTenpai"
  /\ pc = "call"
  /\ hand \in TenpaiInputs
  /\ counts = <<>>
  /\ displaySize = 13
  /\ result = null
  /\ GenIdle
  /\ ArgIdle

CallDetectTenpai ==
  /\ op = "detectTenpai" /\ pc = "call"
  /\ result' = detectTenpai(hand)
  /\ pc' = "done"
  /\ hand' = HandAfterDetectTenpai(hand)
  /\ UNCHANGED <<op, counts, displaySize>>
  /\ UNCHANGED <<argVars, genVars>>

NextTenpai == CallDetectTenpai

SpecTenpai == InitTenpai /\ [][NextTenpai]_vars

\* the 34 kinds
AllKindIds ==
  {TileId(s, r) : s \in NumeralSuits, r \in 1..9} \cup {HONOR_TILES[i] : i \in DOMAIN HONOR_TILES}

WaitIds(res) == {res.waitingTiles[i].id : i \in DOMAIN res.waitingTiles}

NoRepeat(seq) == \A i, j \in DOMAIN seq : seq[i].id = seq[j].id => i = j

\* C2: for a valid 13-tile hand and every one of the 34 kinds k held fewer
\* than 4 times, k is a waiting tile of detectTenpai exactly when the hand
\* plus one k partitions into 4 melds and a pair; no kind is reported twice.
C2_WaitsAreCompletingKinds ==
  (op = "detectTenpai" /\ pc = "done") =>
    LET c == countTiles(hand) IN
    /\ \A k \in AllKindIds :
         Get(c, k) < 4 =>
           ((k \in WaitIds(result)) <=> HasPartition(Put(c, k, Get(c, k) + 1), 4))
    /\ NoRepeat(result.waitingTiles)
    /\ result.isTenpai = (result.waitingTiles # <<>>)

\* a tenpai hand of two suits and an honor triplet that waits on two kinds
C2_Witness ==
  /\ op = "detectTenpai" /\ pc = "done" /\ result.isTenpai
  /\ Cardinality(WaitIds(result)) = 2
  /\ Get(countTiles(hand), "dong") = 3 /\ Get(countTiles(hand), "tong5") = 2

\* C3: the waiting tiles of detectTenpai never hold a kind the hand already
\* holds 4 times.
C3_NoWaitOnFifthCopy ==
  (op = "detectTenpai" /\ pc = "done") =>
    \A k \in WaitIds(result) : Get(countTiles(hand), k) < 4

\* C4: on 1m..9m 8s 8s 5p 6p detectTenpai reports tenpai, waiting tiles
\* {4p, 7p}, two-sided wait.
C4_Example1 ==
  (op = "detectTenpai" /\ pc = "done" /\ hand = Example1Hand) =>
    /\ result.isTenpai = TRUE
    /\ WaitIds(result) = {"tong4", "tong7"}
    /\ Len(result.waitingTiles) = 2
    /\ result.tenpaiType = TENPAI_PATTERNS.LIANGMIAN

C4_Witness ==
  op = "detectTenpai" /\ pc = "done" /\ hand = Example1Hand /\ result.isTenpai

(***************************************************************************)
(* SpecHeqie: evaluateHeqieOptions on every hand of 8, 10 or 14 tiles over *)
(* a bounded set of kinds, with every displaySize of DisplaySizes (so that *)
(* the size may or may not match the hand).                                *)
(***************************************************************************)
HeqieKindCount == 4

HeqieKindOrder ==
  <<"wan2", "wan3", "wan4", "dong", "tong5", "wan5", "nan">>

HeqieKinds == {HeqieKindOrder[i] : i \in 1..HeqieKindCount}

DisplaySizes == {7, 8, 10, 14}

\* 2m 3m 4m 5m 5m + dong x3: discarding 2m leaves the wait {5m}; the other
\* example hands mix a second suit in
HeqieExamples ==
  {HandFrom(f, HeqieKindOrder) :
     f \in {[wan2 |-> 1, wan3 |-> 1, wan4 |-> 1, wan5 |-> 2, dong |-> 3],
            [wan2 |-> 2, wan3 |-> 1, wan4 |-> 1, tong5 |-> 3, dong |-> 1],
            [wan2 |-> 1, wan3 |-> 1, wan4 |-> 1, wan5 |-> 1, tong5 |-> 2, dong |-> 2],
            [wan2 |-> 3, wan3 |-> 3, wan4 |-> 4, wan5 |-> 1, tong5 |-> 3]}}

HeqieInputs ==
  {HandFrom(f, HeqieKindOrder) :
     f \in {g \in [HeqieKinds -> 0..MaxCopies] : TotalTiles(g) \in {8, 10, 14}}}
  \cup HeqieExamples

InitHeqie ==
  /\ op = "evaluateHeqieOptions"
  /\ pc = "call"
  /\ hand \in HeqieInputs
  /\ displaySize \in DisplaySizes
  /\ counts = <<>>
  /\ result = null
  /\ GenIdle
  /\ ArgIdle

CallEvaluateHeqieOptions ==
  /\ op = "evaluateHeqieOptions" /\ pc = "call"
  /\ result' = evaluateHeqieOptions(hand, displaySize)
  /\ pc' = "done"
  /\ hand' = HandAfterEvaluateHeqieOptions(hand)
  /\ UNCHANGED <<op, counts, displaySize>>
  /\ UNCHANGED <<argVars, genVars>>

NextHeqie == CallEvaluateHeqieOptions

SpecHeqie == InitHeqie /\ [][NextHeqie]_vars

HeqieDone == op = "evaluateHeqieOptions" /\ pc = "done"

SizeMatches == displaySize \in {8, 10, 14} /\ Len(hand) = displaySize

SeqToSet(seq) == {seq[i] : i \in DOMAIN seq}

\* C5: bestWinTileCount is the maximum winTileCount over all candidates and
\* bestDiscards is exactly the set of discarded kinds whose candidate is
\* tenpai with that winTileCount: every tie is kept, a candidate that is
\* not tenpai is never in it.
C5_BestDiscardsAreTheTenpaiMaxima ==
  (HeqieDone /\ SizeMatches) =>
    LET cs == SeqToSet(result.candidates) IN
    /\ \E c \in cs : c.winTileCount = result.bestWinTileCount
    /\ \A c \in cs : c.winTileCount <= result.bestWinTileCount
    /\ {result.bestDiscards[i].id : i \in DOMAIN result.bestDiscards}
         = {c.discardTile.id :
              c \in {d \in cs : d.isTenpaiAfter
                                  /\ d.winTileCount = result.bestWinTileCount}}
    /\ NoRepeat(result.bestDiscards)

\* two tenpai discards with different counts: only the larger one is best
C5_Witness ==
  /\ HeqieDone /\ SizeMatches
  /\ Len(result.bestDiscards) = 1
  /\ \E c \in SeqToSet(result.candidates) :
       c.isTenpaiAfter /\ c.winTileCount > 0
         /\ c.winTileCount < result.bestWinTileCount

\* the post-discard hand of a candidate, as a kind-count map
CountsAfter(h, tile) ==
  LET c == countTiles(h) IN [c EXCEPT ![tile.id] = @ - 1]

\* C6: a tenpai candidate's winTileCount is the sum over its waiting kinds
\* of 4 minus the copies of that kind in the post-discard hand, each term
\* between 0 and 4; a candidate that is not tenpai has winTileCount 0.
C6_WinTileCountIsRemainingCopies ==
  (HeqieDone /\ SizeMatches) =>
    \A c \in SeqToSet(result.candidates) :
      LET after == CountsAfter(hand, c.discardTile)
          waitIds == {c.waitingTiles[i].id : i \in DOMAIN c.waitingTiles}
      IN  IF c.isTenpaiAfter
            THEN /\ \A k \in waitIds : 4 - Get(after, k) \in 0..4
                 /\ c.winTileCount =
                      SumOver([k \in waitIds |-> 4 - Get(after, k)], waitIds)
                 /\ NoRepeat(c.waitingTiles)
          ELSE c.winTileCount = 0

\* a tenpai candidate that waits on a kind it holds copies of
C6_Witness ==
  /\ HeqieDone /\ SizeMatches
  /\ \E c \in SeqToSet(result.candidates) :
       /\ c.isTenpaiAfter /\ Len(c.waitingTiles) >= 2
       /\ \E i \in DOMAIN c.waitingTiles :
            Get(CountsAfter(hand, c.discardTile), c.waitingTiles[i].id) \in 1..3

\* C7: when no discard yields tenpai the call returns bestDiscards empty
\* and bestWinTileCount 0; when displaySize is not 8, 10 or 14, or differs
\* from the hand's length, it returns the same with no candidates.
C7_NoTenpaiGivesEmptyBest ==
  HeqieDone =>
    /\ SizeMatches =>
         /\ Len(result.candidates) > 0
         /\ (\A i \in DOMAIN result.candidates : ~result.candidates[i].isTenpaiAfter)
              => (result.bestDiscards = <<>> /\ result.bestWinTileCount = 0)
    /\ ~SizeMatches =>
         /\ result.candidates = <<>>
         /\ result.bestDiscards = <<>>
         /\ result.bestWinTileCount = 0

\* a hand of at least three kinds none of whose discards is tenpai
C7_Witness ==
  /\ HeqieDone /\ SizeMatches
  /\ Len(result.candidates) >= 3
  /\ \A i \in DOMAIN result.candidates : ~result.candidates[i].isTenpaiAfter
  /\ result.bestDiscards = <<>>
  /\ result.bestWinTileCount = 0

(***************************************************************************)
(* tenpai-utils.js: detectTenpai7Or10 and the generator's fallback         *)
(***************************************************************************)
\* tryFormStructureRecursive of tenpai-utils.js: as in tryWin, a loop that
\* returns true on the first success is an \E
RECURSIVE tryFormStructureRecursive(_, _, _, _)
tryFormStructureRecursive(c, meldsCount, targetMelds, pairTaken) ==
  IF meldsCount = targetMelds /\ pairTaken THEN Remaining(c) = 0
  ELSE IF meldsCount = targetMelds
    THEN \E tileId \in DOMAIN c :
           /\ c[tileId] >= 2
           /\ tryFormStructureRecursive(removePair(c, tileId),
                                        targetMelds, targetMelds, TRUE)
  ELSE \/ /\ ~pairTaken
          /\ \E tileId \in DOMAIN c :
               /\ c[tileId] >= 2
               /\ tryFormStructureRecursive(removePair(c, tileId),
                                            meldsCount, targetMelds, TRUE)
       \/ \E tileId \in DOMAIN c :
            /\ c[tileId] >= 3
            /\ tryFormStructureRecursive(removeTriplet(c, tileId),
                                         meldsCount + 1, targetMelds, pairTaken)
       \/ \E tileId \in DOMAIN c :
            /\ c[tileId] > 0 /\ IsNumeralId(tileId)
            /\ LET m == ParseNumeral(tileId) IN
                 /\ m[2] >= 1 /\ m[2] <= 7
                 /\ Get(c, TileId(m[1], m[2])) > 0
                 /\ Get(c, TileId(m[1], m[2] + 1)) > 0
                 /\ Get(c, TileId(m[1], m[2] + 2)) > 0
                 /\ tryFormStructureRecursive(removeSequence(c, m[1], m[2]),
                                              meldsCount + 1, targetMelds, pairTaken)

\* a slip in canFormTenpaiStructure: the target is always the 4 melds of a
\* full hand
canFormTenpaiStructureOfFour(c, targetMelds, needPair) ==
  tryFormStructureRecursive(c, 0, 4, ~needPair)

canFormTenpaiStructure(c, targetMelds, needPair) ==
  tryFormStructureRecursive(c, 0, targetMelds, ~needPair)

detectTenpai7Or10(h, size) ==
  IF size # Len(h) \/ size \notin {7, 10} THEN NotTenpai
  ELSE IF \E id \in DOMAIN countTiles(h) : countTiles(h)[id] > 4 THEN NotTenpai
  ELSE IF SuitsOf(h) = <<>> THEN NotTenpai
  ELSE
    LET possibleTileIds == AllRanksOf(SuitsOf(h))
        handCounts      == countTiles(h)
        targetMelds     == IF size = 7 THEN 2 ELSE 3
        waitingTileIds  ==
          SetAddAll(<<>>,
            SelectSeq(possibleTileIds,
                      LAMBDA tileId :
                        canFormTenpaiStructure(
                          Put(handCounts, tileId, Get(handCounts, tileId) + 1),
                          targetMelds, TRUE)))
        waitingTiles    ==
          UniqueById([i \in DOMAIN waitingTileIds |-> TileOfId(waitingTileIds[i])])
        isTenpai        == Len(waitingTiles) > 0
    IN  [isTenpai     |-> isTenpai,
         waitingTiles |-> waitingTiles,
         tenpaiType   |-> IF isTenpai THEN getTenpaiType(waitingTiles, h) ELSE null]

\* a slip in fallbackHands: the last two tiles are 6 and 7 of tong
fallbackHandsSixSeven ==
  [n \in {7, 10, 13} |->
     [r \in 1..(IF n = 13 THEN 9 ELSE IF n = 10 THEN 6 ELSE 3) |-> <<SUITS.WAN, r>>]
       \o <<<<SUITS.TIAO, 8>>, <<SUITS.TIAO, 8>>, <<SUITS.TONG, 6>>, <<SUITS.TONG, 7>>>>]

\* fallbackHands of generateFallbackTenpaiHand, as <<suit, rank>> pairs
fallbackHands ==
  [n \in {7, 10, 13} |->
     [r \in 1..(IF n = 13 THEN 9 ELSE IF n = 10 THEN 6 ELSE 3) |-> <<SUITS.WAN, r>>]
       \o <<<<SUITS.TIAO, 8>>, <<SUITS.TIAO, 8>>, <<SUITS.TONG, 5>>, <<SUITS.TONG, 6>>>>]

\* a slip in the fallback: the 13-tile hand whatever the tile count
generateFallbackTenpaiHandAlwaysThirteen(n) ==
  [hand         |-> [i \in DOMAIN fallbackHands[13] |->
                       createTile(fallbackHands[13][i][1], fallbackHands[13][i][2])],
   waitingTiles |-> <<createTile(SUITS.TONG, 4), createTile(SUITS.TONG, 7)>>,
   tenpaiType   |-> TENPAI_PATTERNS.LIANGMIAN]

generateFallbackTenpaiHand(n) ==
  LET handTiles == IF n \in DOMAIN fallbackHands THEN fallbackHands[n]
                   ELSE fallbackHands[13]
  IN  [hand         |-> [i \in DOMAIN handTiles |->
                           createTile(handTiles[i][1], handTiles[i][2])],
       waitingTiles |-> <<createTile(SUITS.TONG, 4), createTile(SUITS.TONG, 7)>>,
       tenpaiType   |-> TENPAI_PATTERNS.LIANGMIAN]

difficultyConfig ==
  [easy   |-> <<TENPAI_PATTERNS.LIANGMIAN, TENPAI_PATTERNS.DANQI>>,
   medium |-> <<TENPAI_PATTERNS.LIANGMIAN, TENPAI_PATTERNS.DANQI,
                TENPAI_PATTERNS.KANCHAN, TENPAI_PATTERNS.BIANZHANG,
                TENPAI_PATTERNS.DUIPENG>>,
   hard   |-> <<TENPAI_PATTERNS.SANMIAN, TENPAI_PATTERNS.LIANGMIAN,
                TENPAI_PATTERNS.DUIPENG>>,
   expert |-> <<TENPAI_PATTERNS.SANMIAN, TENPAI_PATTERNS.DUIPENG>>]

\* difficultyConfig[difficulty] || difficultyConfig.easy
availableTypes(d) ==
  IF d \in DOMAIN difficultyConfig THEN difficultyConfig[d] ELSE difficultyConfig.easy

\* tileCount === 7 ? 2 : (tileCount === 10 ? 1 : 0)
honorTripletsCountFor(n) == IF n = 7 THEN 2 ELSE IF n = 10 THEN 1 ELSE 0

(***************************************************************************)
(* hand-generator.js.  Math.random() is read from `tape`: a value is a     *)
(* pair <<n, d>> standing for n/d in [0, 1).  A constructor's locals are   *)
(* variables; genMelds pushes to its own array, which the constructor      *)
(* appends to its hand at once, so the model pushes to `hand` directly.    *)
(* A throw of createTile ends the run at pc = "thrown".                    *)
(***************************************************************************)
SUITS_ARRAY == <<SUITS.WAN, SUITS.TONG, SUITS.TIAO>>

maxTotalAttempts == 200

\* the k-th value (from 0) Math.random() returns in the running step
Draw(k) == tape[((rpos + k) % Len(tape)) + 1]

\* Math.floor(Math.random() * n)
RandInt(r, n) == (r[1] * n) \div r[2]

\* Math.random() < 0.5
LessThanHalf(r) == 2 * r[1] < r[2]

TakeRandom(n) == rpos' = (rpos + n) % Len(tape)

\* Array.from({ length: 9 }, (_, i) => i + 1)
Ranks1To9 == [i \in 1..9 |-> i]

\* { 7: a, 10: b, 13: c }[displaySize] || dflt  (0 is falsy)
NumMeldsOf(table, size, dflt) ==
  IF size \in DOMAIN table /\ table[size] # 0 THEN table[size] ELSE dflt

\* rankCounts[r] = (rankCounts[r] || 0) + n
AddCount(rc, r, n) == Put(rc, r, Get(rc, r) + n)

RECURSIVE AddCounts(_, _)
AddCounts(rc, ranks) ==
  IF ranks = <<>> THEN rc ELSE AddCounts(AddCount(rc, Head(ranks), 1), Tail(ranks))

Tiles(s, ranks) == [i \in DOMAIN ranks |-> createTile(s, ranks[i])]

AnyThrows(s, ranks) == \E i \in DOMAIN ranks : createTileThrows(s, ranks[i])

\* a slip in the pair's filter: the copies already used are not looked at
availableRanksAnyCount(excl, rc) ==
  SelectSeq(Ranks1To9, LAMBDA r : ~Includes(excl, r))

\* .filter(r => !excludeRanks.includes(r) && (rankCounts[r] || 0) < 2)
availableRanks(excl, rc) ==
  SelectSeq(Ranks1To9, LAMBDA r : ~Includes(excl, r) /\ Get(rc, r) < 2)

\* .filter(r => !excludeRanks.includes(r))
candidateRanks(excl) == SelectSeq(Ranks1To9, LAMBDA r : ~Includes(excl, r))

\* ranks.reduce((min, r) => (rankCounts[r] || 0) < (rankCounts[min] || 0) ? r : min)
RECURSIVE LeastUsedFrom(_, _, _)
LeastUsedFrom(min, ranks, rc) ==
  IF ranks = <<>> THEN min
  ELSE LeastUsedFrom(IF Get(rc, Head(ranks)) < Get(rc, min) THEN Head(ranks) ELSE min,
                     Tail(ranks), rc)

\* the rank of a pair or of the single tile: a random available rank, else
\* the least used candidate, else the default
chooseRank(available, candidates, rc, dflt, r) ==
  IF Len(available) > 0 THEN available[RandInt(r, Len(available)) + 1]
  ELSE IF Len(candidates) > 0 THEN LeastUsedFrom(Head(candidates), Tail(candidates), rc)
  ELSE dflt

Swap(seq, i, j) == [seq EXCEPT ![i] = seq[j], ![j] = seq[i]]

\* shuffleTiles: for (i = length - 1; i > 0; i--) swap i and floor(random * (i + 1));
\* k counts the values of the tape taken so far
RECURSIVE shuffleFrom(_, _, _)
shuffleFrom(shuffled, i, k) ==
  IF i < 1 THEN shuffled
  ELSE shuffleFrom(Swap(shuffled, i + 1, RandInt(Draw(k), i + 1) + 1), i - 1, k + 1)

shuffleTiles(tiles) == shuffleFrom(tiles, Len(tiles) - 1, 0)

\* the honor triplets generateTenpaiByType adds: honorSuits[i % 7], three of each
honorTriplets(n) ==
  [k \in 1..(3 * n) |-> createTile(SUITS.HONOR, HONOR_TILES[(((k - 1) \div 3) % 7) + 1])]

\* a slip in the padding: the same honor every time
honorPaddingOfOneKind(needed) ==
  [k \in 1..needed |-> createTile(SUITS.HONOR, HONOR_TILES[1])]

\* the single honors generateTenpaiHand pads a short 13-tile hand with
honorPadding(needed) ==
  [k \in 1..needed |-> createTile(SUITS.HONOR, HONOR_TILES[((k - 1) % 7) + 1])]

fixedVars == <<op, counts, tape, tileCount, difficulty, maxAttempts, argVars>>

callVars == <<attempt, selectedType, honorTripletsCount, displaySize, displayHand,
              detectResult, result>>

shapeVars == <<curSuit, base, edgeRanks, waitRank, excludeRanks, numMelds>>

meldVars == <<usedRanks, generated, attempts>>

\* createTile threw: the exception leaves every constructor and generateTenpaiHand
Thrown ==
  /\ pc' = "thrown"
  /\ UNCHANGED <<fixedVars, callVars, shapeVars, meldVars, hand, rankCounts, waits, rpos>>

\* the label a constructor is chosen by (the default case is genLiangmian)
OtherConstructors ==
  {TENPAI_PATTERNS.DANQI, TENPAI_PATTERNS.SANMIAN, TENPAI_PATTERNS.KANCHAN,
   TENPAI_PATTERNS.BIANZHANG, TENPAI_PATTERNS.DUIPENG}

\* the call genMelds(n, suit, excl, rankCounts) up to its first loop
BeginMelds(n, excl) ==
  /\ numMelds' = n
  /\ excludeRanks' = excl
  /\ usedRanks' = {excl[i] : i \in DOMAIN excl}
  /\ generated' = 0
  /\ attempts' = 0

\* [..].filter(r => r >= 1 && r <= 9)
InRange(ranks) == SelectSeq(ranks, LAMBDA r : r >= 1 /\ r <= 9)

genLiangmianStart ==
  /\ pc = "construct" /\ selectedType \notin OtherConstructors
  /\ LET b == RandInt(Draw(1), 6) + 2 IN
       /\ curSuit' = SUITS_ARRAY[RandInt(Draw(0), Len(SUITS_ARRAY)) + 1]
       /\ base' = b
       /\ BeginMelds(NumMeldsOf((7 :> 1) @@ (10 :> 2) @@ (13 :> 3), displaySize, 3),
                     InRange(<<b - 1, b, b + 1, b + 2>>))
  /\ hand' = <<>> /\ rankCounts' = <<>> /\ waits' = <<>>
  /\ edgeRanks' = <<>> /\ waitRank' = 0
  /\ TakeRandom(2)
  /\ pc' = "genMelds"
  /\ UNCHANGED <<fixedVars, callVars>>

genDanqiStart ==
  /\ pc = "construct" /\ selectedType = TENPAI_PATTERNS.DANQI
  /\ curSuit' = SUITS_ARRAY[RandInt(Draw(0), Len(SUITS_ARRAY)) + 1]
  /\ BeginMelds(NumMeldsOf((7 :> 2) @@ (10 :> 3) @@ (13 :> 4), displaySize, 4), <<>>)
  /\ hand' = <<>> /\ rankCounts' = <<>> /\ waits' = <<>>
  /\ base' = 0 /\ edgeRanks' = <<>> /\ waitRank' = 0
  /\ TakeRandom(1)
  /\ pc' = "genMelds"
  /\ UNCHANGED <<fixedVars, callVars>>

\* the five consecutive tiles come first; genMelds is called only when
\* numExtraMelds > 0
genSanmianStart ==
  /\ pc = "construct" /\ selectedType = TENPAI_PATTERNS.SANMIAN
  /\ LET s    == SUITS_ARRAY[RandInt(Draw(0), Len(SUITS_ARRAY)) + 1]
         b    == RandInt(Draw(1), 3) + 2
         five == [i \in 1..5 |-> b + i - 1]
         numExtraMelds == NumMeldsOf((7 :> 0) @@ (10 :> 1) @@ (13 :> 2), displaySize, 2)
     IN  IF AnyThrows(s, five) THEN Thrown
         ELSE /\ curSuit' = s
              /\ base' = b
              /\ hand' = Tiles(s, five)
              /\ rankCounts' = AddCounts(<<>>, five)
              /\ BeginMelds(numExtraMelds, five)
              /\ waits' = <<>> /\ edgeRanks' = <<>> /\ waitRank' = 0
              /\ TakeRandom(2)
              /\ pc' = IF numExtraMelds > 0 THEN "genMelds" ELSE "tail"
              /\ UNCHANGED <<fixedVars, callVars>>

genKanchanStart ==
  /\ pc = "construct" /\ selectedType = TENPAI_PATTERNS.KANCHAN
  /\ LET b == RandInt(Draw(1), 6) + 2 IN
       /\ curSuit' = SUITS_ARRAY[RandInt(Draw(0), Len(SUITS_ARRAY)) + 1]
       /\ base' = b
       /\ BeginMelds(NumMeldsOf((7 :> 1) @@ (10 :> 2) @@ (13 :> 3), displaySize, 3),
                     InRange(<<b, b + 1, b + 2>>))
  /\ hand' = <<>> /\ rankCounts' = <<>> /\ waits' = <<>>
  /\ edgeRanks' = <<>> /\ waitRank' = 0
  /\ TakeRandom(2)
  /\ pc' = "genMelds"
  /\ UNCHANGED <<fixedVars, callVars>>

genBianzhangStart ==
  /\ pc = "construct" /\ selectedType = TENPAI_PATTERNS.BIANZHANG
  /\ LET edgeType == IF LessThanHalf(Draw(1)) THEN "low" ELSE "high"
         edge     == IF edgeType = "low" THEN <<1, 2>> ELSE <<8, 9>>
         wait     == IF edgeType = "low" THEN 3 ELSE 7
     IN  /\ curSuit' = SUITS_ARRAY[RandInt(Draw(0), Len(SUITS_ARRAY)) + 1]
         /\ edgeRanks' = edge
         /\ waitRank' = wait
         /\ BeginMelds(NumMeldsOf((7 :> 1) @@ (10 :> 2) @@ (13 :> 3), displaySize, 3),
                       InRange(edge \o <<wait>>))
  /\ hand' = <<>> /\ rankCounts' = <<>> /\ waits' = <<>>
  /\ base' = 0
  /\ TakeRandom(2)
  /\ pc' = "genMelds"
  /\ UNCHANGED <<fixedVars, callVars>>

genDuipengStart ==
  /\ pc = "construct" /\ selectedType = TENPAI_PATTERNS.DUIPENG
  /\ curSuit' = SUITS_ARRAY[RandInt(Draw(0), Len(SUITS_ARRAY)) + 1]
  /\ BeginMelds(NumMeldsOf((7 :> 1) @@ (10 :> 2) @@ (13 :> 3), displaySize, 3), <<>>)
  /\ hand' = <<>> /\ rankCounts' = <<>> /\ waits' = <<>>
  /\ base' = 0 /\ edgeRanks' = <<>> /\ waitRank' = 0
  /\ TakeRandom(1)
  /\ pc' = "genMelds"
  /\ UNCHANGED <<fixedVars, callVars>>

\* while (generated < numMelds && attempts < maxTotalAttempts)
GenMeldsLooping == generated < numMelds /\ attempts < maxTotalAttempts

\* one trial of the first loop: a run from a random start or a triplet of a
\* random rank, kept when no rank of it is used or at its limit
genMeldsTrial ==
  /\ pc = "genMelds" /\ GenMeldsLooping
  /\ LET meldType == IF LessThanHalf(Draw(0)) THEN "shunzi" ELSE "kezi"
         start    == RandInt(Draw(1), 7) + 1
         ranks    == <<start, start + 1, start + 2>>
         rank     == RandInt(Draw(1), 9) + 1
         kept     == IF meldType = "shunzi"
                       THEN /\ ~\E i \in 1..3 : ranks[i] \in usedRanks
                            /\ ~\E i \in 1..3 : Get(rankCounts, ranks[i]) >= 4
                     ELSE rank \notin usedRanks /\ Get(rankCounts, rank) < 2
         pushed   == IF meldType = "shunzi" THEN ranks ELSE <<rank, rank, rank>>
     IN  IF kept /\ AnyThrows(curSuit, pushed) THEN Thrown
         ELSE /\ attempts' = attempts + 1
              /\ IF kept
                   THEN /\ hand' = hand \o Tiles(curSuit, pushed)
                        /\ usedRanks' = usedRanks \cup {pushed[i] : i \in 1..3}
                        /\ rankCounts' = AddCounts(rankCounts, pushed)
                        /\ generated' = generated + 1
                   ELSE UNCHANGED <<hand, usedRanks, rankCounts, generated>>
              /\ TakeRandom(2)
              /\ pc' = "genMelds"
              /\ UNCHANGED <<fixedVars, callVars, shapeVars, waits>>

\* the ranks the second loop of genMelds may still make a triplet of
FillRanks == {r \in 1..9 : r \notin usedRanks /\ Get(rankCounts, r) < 2}

\* one round of the second loop that finds a rank: the lowest one
genMeldsFill ==
  /\ pc = "genMelds" /\ ~GenMeldsLooping
  /\ generated < numMelds /\ FillRanks # {}
  /\ LET rank == CHOOSE r \in FillRanks : \A q \in FillRanks : r <= q IN
       IF createTileThrows(curSuit, rank) THEN Thrown
       ELSE /\ hand' = hand \o Tiles(curSuit, <<rank, rank, rank>>)
            /\ usedRanks' = usedRanks \cup {rank}
            /\ rankCounts' = AddCount(rankCounts, rank, 3)
            /\ generated' = generated + 1
            /\ pc' = "genMelds"
            /\ UNCHANGED <<fixedVars, callVars, shapeVars, attempts, waits, rpos>>

\* genMelds returns: enough melds, or no rank left for the second loop
genMeldsReturn ==
  /\ pc = "genMelds" /\ ~GenMeldsLooping
  /\ ~(generated < numMelds /\ FillRanks # {})
  /\ pc' = "tail"
  /\ UNCHANGED <<fixedVars, callVars, shapeVars, meldVars, hand, rankCounts, waits, rpos>>

\* the pair, then the two tiles a and b of the waiting shape when neither is
\* at its limit, then the waits (genLiangmian, genKanchan, genBianzhang)
PairThenShape(a, b, waitRanks) ==
  LET available == availableRanks(excludeRanks, rankCounts)
      pairRank  == chooseRank(available, candidateRanks(excludeRanks), rankCounts,
                              1, Draw(0))
      withPair  == AddCount(rankCounts, pairRank, 2)
      shape     == Get(withPair, a) < 4 /\ Get(withPair, b) < 4
      pushed    == <<pairRank, pairRank>> \o (IF shape THEN <<a, b>> ELSE <<>>)
  IN  IF AnyThrows(curSuit, pushed \o waitRanks) THEN Thrown
      ELSE /\ hand' = hand \o Tiles(curSuit, pushed)
           /\ rankCounts' = AddCounts(rankCounts, pushed)
           /\ waits' = Tiles(curSuit, waitRanks)
           /\ TakeRandom(IF Len(available) > 0 THEN 1 ELSE 0)
           /\ pc' = "shuffle"
           /\ UNCHANGED <<fixedVars, callVars, shapeVars, meldVars>>

genLiangmianTail ==
  /\ pc = "tail" /\ selectedType \notin OtherConstructors
  /\ PairThenShape(base, base + 1, <<base - 1, base + 2>>)

genKanchanTail ==
  /\ pc = "tail" /\ selectedType = TENPAI_PATTERNS.KANCHAN
  /\ PairThenShape(base, base + 2, <<base + 1>>)

genBianzhangTail ==
  /\ pc = "tail" /\ selectedType = TENPAI_PATTERNS.BIANZHANG
  /\ PairThenShape(edgeRanks[1], edgeRanks[2], <<waitRank>>)

genSanmianTail ==
  /\ pc = "tail" /\ selectedType = TENPAI_PATTERNS.SANMIAN
  /\ LET available == availableRanks(excludeRanks, rankCounts)
         pairRank  == chooseRank(available, candidateRanks(excludeRanks), rankCounts,
                                 1, Draw(0))
         waitRanks == <<base - 1, base + 2, base + 5>>
     IN  IF AnyThrows(curSuit, <<pairRank>> \o waitRanks) THEN Thrown
         ELSE /\ hand' = hand \o Tiles(curSuit, <<pairRank, pairRank>>)
              /\ rankCounts' = AddCount(rankCounts, pairRank, 2)
              /\ waits' = Tiles(curSuit, waitRanks)
              /\ TakeRandom(IF Len(available) > 0 THEN 1 ELSE 0)
              /\ pc' = "shuffle"
              /\ UNCHANGED <<fixedVars, callVars, shapeVars, meldVars>>

\* the single tile: a random rank not yet in the hand, else the least used one
genDanqiTail ==
  /\ pc = "tail" /\ selectedType = TENPAI_PATTERNS.DANQI
  /\ LET unusedRanks == SelectSeq(Ranks1To9, LAMBDA r : Get(rankCounts, r) = 0)
         wait        == IF Len(unusedRanks) > 0
                          THEN unusedRanks[RandInt(Draw(0), Len(unusedRanks)) + 1]
                        ELSE LeastUsedFrom(1, Ranks1To9, rankCounts)
     IN  IF createTileThrows(curSuit, wait) THEN Thrown
         ELSE /\ hand' = Append(hand, createTile(curSuit, wait))
              /\ rankCounts' = AddCount(rankCounts, wait, 1)
              /\ waitRank' = wait
              /\ waits' = <<createTile(curSuit, wait)>>
              /\ TakeRandom(IF Len(unusedRanks) > 0 THEN 1 ELSE 0)
              /\ pc' = "shuffle"
              /\ UNCHANGED <<fixedVars, callVars, curSuit, base, edgeRanks,
                             excludeRanks, numMelds, meldVars>>

\* two pairs of different ranks p1 and p2
genDuipengTail ==
  /\ pc = "tail" /\ selectedType = TENPAI_PATTERNS.DUIPENG
  /\ LET available1 == availableRanks(<<>>, rankCounts)
         p1         == IF Len(available1) > 0
                         THEN available1[RandInt(Draw(0), Len(available1)) + 1]
                       ELSE LeastUsedFrom(1, Ranks1To9, rankCounts)
         used1      == IF Len(available1) > 0 THEN 1 ELSE 0
         withP1     == AddCount(rankCounts, p1, 2)
         available2 == availableRanks(<<p1>>, withP1)
         p2         == chooseRank(available2, candidateRanks(<<p1>>), withP1,
                                  IF p1 = 1 THEN 2 ELSE 1, Draw(used1))
         used2      == IF Len(available2) > 0 THEN 1 ELSE 0
     IN  IF AnyThrows(curSuit, <<p1, p2>>) THEN Thrown
         ELSE /\ hand' = hand \o Tiles(curSuit, <<p1, p1, p2, p2>>)
              /\ rankCounts' = AddCount(withP1, p2, 2)
              /\ waits' = Tiles(curSuit, <<p1, p2>>)
              /\ TakeRandom(used1 + used2)
              /\ pc' = "shuffle"
              /\ UNCHANGED <<fixedVars, callVars, shapeVars, meldVars>>

\* generateTenpaiByType after the switch: the honor triplets, the shuffle, the
\* return (to the caller generateTenpaiHand when there is one)
AddHonorsAndShuffle ==
  /\ pc = "shuffle"
  /\ LET withHonors == hand \o honorTriplets(honorTripletsCount)
         shuffled   == shuffleTiles(withHonors)
     IN  /\ hand' = shuffled
         /\ TakeRandom(IF Len(withHonors) > 0 THEN Len(withHonors) - 1 ELSE 0)
         /\ IF op = "generateTenpaiByType"
              THEN /\ result' = [hand |-> shuffled, waits |-> waits]
                   /\ pc' = "done"
            ELSE /\ result' = result
                 /\ pc' = "verify"
  /\ UNCHANGED <<fixedVars, attempt, selectedType, honorTripletsCount, displaySize,
                 displayHand, detectResult, shapeVars, meldVars, rankCounts, waits>>

(***************************************************************************)
(* tenpai-utils.js: generateTenpaiHand                                     *)
(***************************************************************************)
CallGenerateTenpaiHand ==
  /\ op = "generateTenpaiHand" /\ pc = "call"
  /\ honorTripletsCount' = honorTripletsCountFor(tileCount)
  /\ attempt' = 0
  /\ pc' = "loop"
  /\ UNCHANGED <<fixedVars, selectedType, displaySize, displayHand, detectResult,
                 result, shapeVars, meldVars, hand, rankCounts, waits, rpos>>

\* a slip in the loop's test: one attempt too many
LoopContinuesInclusive == attempt <= maxAttempts

\* for (let attempt = 0; attempt < maxAttempts; attempt++)
LoopContinues == attempt < maxAttempts

\* the head of one attempt: the pattern is drawn and generateTenpaiByType called
AttemptStart ==
  /\ pc = "loop" /\ LoopContinues
  /\ selectedType' = availableTypes(difficulty)[
                       RandInt(Draw(0), Len(availableTypes(difficulty))) + 1]
  /\ displaySize' = tileCount
  /\ TakeRandom(1)
  /\ pc' = "construct"
  /\ UNCHANGED <<fixedVars, attempt, honorTripletsCount, displayHand, detectResult,
                 result, shapeVars, meldVars, hand, rankCounts, waits>>

ReturnFallback ==
  /\ pc = "loop" /\ ~LoopContinues
  /\ result' = generateFallbackTenpaiHand(tileCount)
  /\ pc' = "done"
  /\ UNCHANGED <<fixedVars, attempt, selectedType, honorTripletsCount, displaySize,
                 displayHand, detectResult, shapeVars, meldVars, hand, rankCounts,
                 waits, rpos>>

\* fullHand.filter(tile => tile.suit !== SUITS.HONOR)
WithoutHonors(tiles) == SelectSeq(tiles, LAMBDA tile : tile.suit # SUITS.HONOR)

\* the detector is run on the attempt's hand; handToDetect is fullHand itself,
\* so the padding of a short 13-tile hand is pushed to generated.hand
DetectAttempt ==
  /\ pc = "verify"
  /\ displayHand' = WithoutHonors(hand)
  /\ IF tileCount = 7 \/ tileCount = 10
       THEN /\ detectResult' = detectTenpai7Or10(WithoutHonors(hand), tileCount)
            /\ hand' = hand
     ELSE LET handToDetect == IF Len(hand) < 13
                                THEN hand \o honorPadding(13 - Len(hand))
                              ELSE hand
          IN  /\ detectResult' = detectTenpai(handToDetect)
              /\ hand' = handToDetect
  /\ pc' = "decide"
  /\ UNCHANGED <<fixedVars, attempt, selectedType, honorTripletsCount, displaySize,
                 result, shapeVars, meldVars, rankCounts, waits, rpos>>

\* detectResult.isTenpai && detectResult.waitingTiles.length > 0
AttemptConfirmed == detectResult.isTenpai /\ Len(detectResult.waitingTiles) > 0

ReturnAttempt ==
  /\ pc = "decide" /\ AttemptConfirmed
  /\ LET waitingTiles == WithoutHonors(detectResult.waitingTiles) IN
       result' = [hand         |-> displayHand,
                  waitingTiles |-> IF Len(waitingTiles) > 0 THEN waitingTiles ELSE waits,
                  tenpaiType   |-> IF detectResult.tenpaiType # null
                                     THEN detectResult.tenpaiType
                                   ELSE selectedType]
  /\ pc' = "done"
  /\ UNCHANGED <<fixedVars, attempt, selectedType, honorTripletsCount, displaySize,
                 displayHand, detectResult, shapeVars, meldVars, hand, rankCounts,
                 waits, rpos>>

NextAttempt ==
  /\ pc = "decide" /\ ~AttemptConfirmed
  /\ attempt' = attempt + 1
  /\ pc' = "loop"
  /\ UNCHANGED <<fixedVars, selectedType, honorTripletsCount, displaySize,
                 displayHand, detectResult, result, shapeVars, meldVars, hand,
                 rankCounts, waits, rpos>>

(***************************************************************************)
(* The runs of the generator.  The values of Math.random() are the inputs: *)
(* every tape of TapeLen values of RandomValues, repeated in turn, and two *)
(* tapes on which genMelds draws the runs 123, 456 and 789 and then finds  *)
(* no rank for a fourth meld.                                              *)
(***************************************************************************)
TapeLen == 3

MaxAttemptsBound == 2

\* 0, 0.45, 0.7 and 0.95: between them they draw the lowest and the highest
\* value of every range the generator draws from, and every pattern of every
\* difficulty
RandomValues == {<<0, 20>>, <<9, 20>>, <<14, 20>>, <<19, 20>>}

PeriodicTapes == [1..TapeLen -> RandomValues]

\* the pattern (index 1 of 2), the suit, then three runs starting at 1, 4 and 7
ShortHandTape ==
  <<<<5, 10>>, <<0, 10>>, <<0, 10>>, <<0, 10>>, <<0, 10>>, <<5, 10>>, <<0, 10>>, <<9, 10>>>>

\* the same without the draw of the pattern
ShortMeldsTape == Tail(ShortHandTape) \o <<Head(ShortHandTape)>>

Tapes == PeriodicTapes \cup {ShortHandTape, ShortMeldsTape}

TileCounts == {7, 10, 13}

Difficulties == {"easy", "medium", "hard", "expert"}

PatternLabels == {TENPAI_PATTERNS.LIANGMIAN} \cup OtherConstructors

\* every variable of the generator that a call sets before reading it
GenFresh ==
  /\ displayHand = <<>>
  /\ detectResult = NotTenpai
  /\ curSuit = null /\ base = 0 /\ edgeRanks = <<>> /\ waitRank = 0
  /\ excludeRanks = <<>> /\ numMelds = 0 /\ rankCounts = <<>> /\ waits = <<>>
  /\ usedRanks = {} /\ generated = 0 /\ attempts = 0
  /\ rpos = 0 /\ counts = <<>> /\ hand = <<>> /\ result = null

InitByType ==
  /\ op = "generateTenpaiByType"
  /\ pc = "construct"
  /\ selectedType \in PatternLabels
  /\ displaySize \in TileCounts
  /\ honorTripletsCount \in 0..2
  /\ tape \in Tapes
  /\ tileCount = 0 /\ difficulty = null /\ maxAttempts = 0 /\ attempt = 0
  /\ GenFresh
  /\ ArgIdle

Constructor ==
  \/ genLiangmianStart \/ genDanqiStart \/ genSanmianStart
  \/ genKanchanStart \/ genBianzhangStart \/ genDuipengStart
  \/ genMeldsTrial \/ genMeldsFill \/ genMeldsReturn
  \/ genLiangmianTail \/ genDanqiTail \/ genSanmianTail
  \/ genKanchanTail \/ genBianzhangTail \/ genDuipengTail
  \/ AddHonorsAndShuffle

NextByType == Constructor

SpecByType == InitByType /\ [][NextByType]_vars

InitHand ==
  /\ op = "generateTenpaiHand"
  /\ pc = "call"
  /\ tileCount \in TileCounts
  /\ difficulty \in Difficulties
  /\ maxAttempts \in 0..MaxAttemptsBound
  /\ tape \in Tapes
  /\ attempt = 0 /\ selectedType = null /\ honorTripletsCount = 0 /\ displaySize = 0
  /\ GenFresh
  /\ ArgIdle

NextHand ==
  \/ CallGenerateTenpaiHand \/ AttemptStart \/ ReturnFallback
  \/ Constructor
  \/ DetectAttempt \/ ReturnAttempt \/ NextAttempt

SpecHand == InitHand /\ [][NextHand]_vars

HandDone == op = "generateTenpaiHand" /\ pc = "done"

\* the detector the trainer runs on a generated hand of n tiles
MatchingDetector(h, n) ==
  IF n = 7 \/ n = 10 THEN detectTenpai7Or10(h, n) ELSE detectTenpai(h)

\* C8: for every tileCount in {7, 10, 13}, every difficulty and every outcome
\* of the random choices, the hand generateTenpaiHand returns, from a
\* constructor or from the fallback, is reported tenpai with a non-empty
\* waiting set by the matching detector.
C8_ReturnedHandIsTenpai ==
  HandDone =>
    LET detected == MatchingDetector(result.hand, tileCount) IN
      detected.isTenpai /\ Len(detected.waitingTiles) > 0

\* a hand a constructor built on the second attempt, the first one rejected
C8_Witness ==
  /\ HandDone
  /\ maxAttempts = 2 /\ attempt = 1
  /\ result.hand = displayHand
  /\ Len(result.hand) = tileCount

\* an attempt is between its first and its last step
AttemptRunning == pc \in {"construct", "genMelds", "tail", "shuffle", "verify", "decide"}

NumeralRanksValid(tiles) ==
  \A i \in DOMAIN tiles : tiles[i].suit # SUITS.HONOR => tiles[i].rank \in 1..9

\* an upper bound on the steps one attempt takes
StepsPerAttempt == maxTotalAttempts + 12

\* the steps the running attempt may still take
StepsLeftInAttempt ==
  CASE pc = "construct" -> maxTotalAttempts + 10
    [] pc = "genMelds"  -> 5 + (maxTotalAttempts - attempts) + (numMelds - generated)
    [] pc = "tail"      -> 4
    [] pc = "shuffle"   -> 3
    [] pc = "verify"    -> 2
    [] pc = "decide"    -> 1

\* an upper bound on the steps the call may still take
StepsLeft ==
  IF pc \in {"done", "thrown"} THEN 0
  ELSE IF pc = "call" THEN maxAttempts * StepsPerAttempt + 2
  ELSE IF pc = "loop" THEN (maxAttempts - attempt) * StepsPerAttempt + 1
  ELSE (maxAttempts - attempt - 1) * StepsPerAttempt + 1 + StepsLeftInAttempt

\* a call that has not returned can take a step.  The tail of a constructor,
\* AddHonorsAndShuffle and DetectAttempt have no guard but their pc (and the
\* pattern, every value of which has a constructor).
CanStep ==
  CASE pc \in {"call", "loop"} ->
         ENABLED (CallGenerateTenpaiHand \/ AttemptStart \/ ReturnFallback)
    [] pc = "construct" ->
         ENABLED (\/ genLiangmianStart \/ genDanqiStart \/ genSanmianStart
                  \/ genKanchanStart \/ genBianzhangStart \/ genDuipengStart)
    [] pc = "genMelds" ->
         ENABLED (genMeldsTrial \/ genMeldsFill \/ genMeldsReturn)
    [] pc = "decide" -> ENABLED (ReturnAttempt \/ NextAttempt)
    [] pc \in {"tail", "shuffle", "verify"} -> TRUE
    [] OTHER -> FALSE

C9_Bounded ==
  op = "generateTenpaiHand" =>
    /\ pc # "thrown"
    /\ attempt <= maxAttempts
    /\ AttemptRunning => attempt < maxAttempts
    /\ attempts <= maxTotalAttempts /\ generated <= numMelds /\ numMelds <= 4
    /\ pc = "tail" => (generated = numMelds \/ FillRanks = {})
    /\ NumeralRanksValid(hand) /\ NumeralRanksValid(waits)
    /\ StepsLeft >= 0
    /\ pc # "done" => CanStep
    /\ pc = "done" =>
         IF attempt < maxAttempts
           THEN AttemptConfirmed /\ result.hand = displayHand
         ELSE result = generateFallbackTenpaiHand(tileCount)

C9_Step ==
  op = "generateTenpaiHand" =>
    /\ StepsLeft' < StepsLeft
    /\ (pc = "decide" /\ AttemptConfirmed) => pc' = "done"

\* C9: generateTenpaiHand always terminates and never throws: a call that has
\* not returned can take a step and every step lowers StepsLeft, a natural
\* number; at most maxAttempts attempts are made, a genMelds call makes at
\* most 200 random trials and its fill loop ends when no rank is eligible,
\* every numeral tile created has a rank in 1..9, the first attempt the
\* detector confirms is returned, and otherwise the fixed fallback hand of
\* the tile count is.
C9_TerminatesWithinBounds == []C9_Bounded /\ [][C9_Step]_vars

\* the fallback is returned after two rejected attempts, the last of which
\* used up the 200 trials of genMelds
C9_Witness ==
  /\ HandDone
  /\ maxAttempts = 2 /\ attempt = 2
  /\ attempts = maxTotalAttempts
  /\ result = generateFallbackTenpaiHand(tileCount)

\* the copies of rank r of the constructor's suit in a hand
CopiesOfRank(tiles, r) ==
  Cardinality({i \in DOMAIN tiles : tiles[i].suit = curSuit /\ tiles[i].id = TileId(curSuit, r)})

\* C10: for every pattern label, every displaySize in {7, 10, 13},
\* honorTripletsCount in 0..2 and every outcome of the random choices, the
\* hand generateTenpaiByType returns contains no kind more than 4 times, and
\* at every step of a constructor rankCounts counts the hand's copies of each
\* rank and never exceeds 4.
C10_NoKindAboveFour ==
  op = "generateTenpaiByType" =>
    /\ \A r \in DOMAIN rankCounts : r \in 1..9 /\ rankCounts[r] <= 4
    /\ pc \in {"genMelds", "tail", "shuffle", "done"} =>
         \A r \in 1..9 : CopiesOfRank(hand, r) = Get(rankCounts, r)
    /\ pc = "done" =>
         /\ result.hand = hand
         /\ \A id \in DOMAIN countTiles(result.hand) : countTiles(result.hand)[id] <= 4

\* a returned hand with two honor triplets in which the pair was put next to a
\* triplet the fill loop of genMelds made
C10_Witness ==
  /\ op = "generateTenpaiByType" /\ pc = "done"
  /\ honorTripletsCount = 2
  /\ attempts = maxTotalAttempts /\ generated = numMelds
  /\ \E r \in 1..9 : Get(rankCounts, r) = 3
  /\ \E r \in 1..9 : Get(rankCounts, r) = 2

\* C18: for each of the six labels and displaySize 13, whenever the waiting
\* set detectTenpai finds for the hand generateTenpaiByType(label, 13) built
\* (no honor triplets) equals the waits the constructor declared, getTenpaiType on that waiting
\* set gives back the label asked for
C18_LabelRoundTrip ==
  (op = "generateTenpaiByType" /\ pc = "done" /\ displaySize = 13
     /\ honorTripletsCount = 0) =>
    LET detected == detectTenpai(result.hand) IN
    WaitIds(detected) = {result.waits[i].id : i \in DOMAIN result.waits} =>
      getTenpaiType(detected.waitingTiles, result.hand) = selectedType

(***************************************************************************)
(* SpecTile: createTile called twice, with every suit of SuitArgs (the     *)
(* four suits and one that is none of them) and every rank of RankArgs     *)
(* (integers inside and outside 1..9, honor symbols and a string that is   *)
(* not an honor symbol).  Ranks are integers or symbols, as the callers of *)
(* createTile pass them; numeric strings and fractions are left out.       *)
(***************************************************************************)
SuitArgs == NumeralSuits \cup {SUITS.HONOR, "feng"}

RankArgs ==
  {JsNumber(n) : n \in -1..11}
    \cup {JsString(str) : str \in {"dong", "zhong", "north"}}

InitTile ==
  /\ op = "createTile"
  /\ pc = "call"
  /\ counts = <<>> /\ hand = <<>> /\ displaySize = 0 /\ result = null
  /\ ArgIdle
  /\ GenIdle

CallCreateTile ==
  /\ op = "createTile" /\ pc = "call"
  /\ \E suit \in SuitArgs, rank \in RankArgs :
       calls' = Append(calls,
                  [suit  |-> suit, rank |-> rank,
                   threw |-> createTileThrowsOn(suit, rank),
                   tile  |-> IF createTileThrowsOn(suit, rank) THEN <<>>
                             ELSE <<createTileOn(suit, rank)>>])
  /\ pc' = IF Len(calls) = 1 THEN "done" ELSE "call"
  /\ UNCHANGED <<op, counts, hand, displaySize, result, targetMeldsArg,
                 waitingTilesArg, timerVars, genVars>>

NextTile == CallCreateTile

SpecTile == InitTile /\ [][NextTile]_vars

DecomposeKindCount == 4

MaxNegative == 1

DecomposeMaxCount == 3

DecomposeKindOrder == <<"wan1", "wan2", "wan3", "dong", "wan4">>

DecomposeKinds == {DecomposeKindOrder[i] : i \in 1..DecomposeKindCount}

\* the targetMelds arguments tried (detectTenpai7Or10 passes 2 or 3)
TargetMeldsArgs == {1, 2}

InitDecompose ==
  /\ op \in {"canFormTenpaiStructure", "heqie_canFormTenpaiStructure"}
  /\ pc = "call"
  /\ counts \in [DecomposeKinds -> (0 - MaxNegative)..DecomposeMaxCount]
  /\ targetMeldsArg \in TargetMeldsArgs
  /\ waitingTilesArg = <<>> /\ calls = <<>>
  /\ hand = <<>> /\ displaySize = 0 /\ result = null
  /\ GenIdle
  /\ TimerIdle

CallCanFormTenpaiStructure ==
  /\ op = "canFormTenpaiStructure" /\ pc = "call"
  /\ result' = canFormTenpaiStructure(counts, targetMeldsArg, TRUE)
  /\ pc' = "done"
  /\ counts' = CountsAfterCanFormTenpaiStructure(counts)
  /\ UNCHANGED <<op, hand, displaySize, argVars, genVars>>

CallHeqieCanFormTenpaiStructure ==
  /\ op = "heqie_canFormTenpaiStructure" /\ pc = "call"
  /\ result' = heqie_canFormTenpaiStructure(counts, targetMeldsArg, TRUE)
  /\ pc' = "done"
  /\ counts' = heqie_CountsAfterCanFormTenpaiStructure(counts)
  /\ UNCHANGED <<op, hand, displaySize, argVars, genVars>>

NextDecompose == CallCanFormTenpaiStructure \/ CallHeqieCanFormTenpaiStructure

SpecDecompose == InitDecompose /\ [][NextDecompose]_vars

HasNegativeCount(c) == \E k \in DOMAIN c : c[k] < 0

\* C16: for a kind-count map holding a negative count the decomposer
\* signals an error instead of returning true or false; it never reports
\* such a map as decomposable
C16_NegativeCountIsAnError ==
  (op \in {"canFormTenpaiStructure", "heqie_canFormTenpaiStructure"}
     /\ HasNegativeCount(counts) /\ pc # "call") =>
    (pc = "thrown" /\ result # TRUE)

(***************************************************************************)
(* SpecType: getTenpaiType on every array of up to MaxWaits distinct tiles *)
(* over a bounded set of kinds (all ranks of one numeral suit, one kind of *)
(* a second suit, four honor kinds; fewer ranks for arrays of more than 3  *)
(* tiles), in every order, called twice on the same array with a hand      *)
(* argument that may differ between the calls.                             *)
(***************************************************************************)
MaxWaits == 4

TypeTiles ==
  {createTile(SUITS.WAN, r) : r \in 1..9}
    \cup {createTile(SUITS.TONG, 1)}
    \cup {createTile(SUITS.HONOR, HONOR_TILES[i]) : i \in 1..4}

\* the kinds the arrays of more than 3 tiles are made of
LongTypeTiles ==
  {createTile(SUITS.WAN, r) : r \in {1, 2, 3, 5, 9}}
    \cup {createTile(SUITS.TONG, 1)}
    \cup {createTile(SUITS.HONOR, HONOR_TILES[i]) : i \in 1..4}

\* arrays of distinct tiles: up to 3 tiles of TypeTiles, or 4 to MaxWaits
\* tiles of LongTypeTiles
TypeInputs ==
  {w \in UNION ({[1..n -> TypeTiles] : n \in 0..3}
                 \cup {[1..n -> LongTypeTiles] : n \in 4..MaxWaits}) :
     \A i, j \in DOMAIN w : w[i] = w[j] => i = j}

\* the hand arguments tried: getTenpaiType never reads its second parameter
HandArgs == {<<>>, Example1Hand}

InitType ==
  /\ op = "getTenpaiType"
  /\ pc = "call"
  /\ waitingTilesArg \in TypeInputs
  /\ calls = <<>>
  /\ targetMeldsArg = 0
  /\ counts = <<>> /\ hand = <<>> /\ displaySize = 0 /\ result = null
  /\ GenIdle
  /\ TimerIdle

CallGetTenpaiType ==
  /\ op = "getTenpaiType" /\ pc = "call"
  /\ \E h \in HandArgs :
       /\ hand' = h
       /\ result' = getTenpaiType(waitingTilesArg, h)
       /\ calls' = Append(calls, [waitingTiles |-> waitingTilesArg, hand |-> h,
                                  value |-> getTenpaiType(waitingTilesArg, h)])
  /\ waitingTilesArg' = ArrayAfterGetTenpaiType(waitingTilesArg)
  /\ pc' = IF Len(calls) = 1 THEN "done" ELSE "call"
  /\ UNCHANGED <<op, counts, displaySize, targetMeldsArg, timerVars, genVars>>

NextType == CallGetTenpaiType

SpecType == InitType /\ [][NextType]_vars

\* the waiting arrays of the calls made so far that hold n tiles
CallsOfSize(n) == {i \in DOMAIN calls : Len(calls[i].waitingTiles) = n}

SameSuit(w) == \A i \in DOMAIN w : w[i].suit = w[1].suit

MinOf(ns) == CHOOSE n \in ns : \A m \in ns : n <= m

MaxOf(ns) == CHOOSE n \in ns : \A m \in ns : n >= m

C12_FourOrMoreIsDuomian ==
  \A i \in DOMAIN calls :
    Len(calls[i].waitingTiles) >= 4 => calls[i].value = DUOMIAN

\* C13: on a waiting set of exactly 3 distinct kinds getTenpaiType returns
\* sanmian if the three are of one suit and their sorted ranks are equally
\* spaced, and duomian for every other set (unequal spacing, more than one
\* suit, honor kinds)
C13_ThreeKinds ==
  \A i \in CallsOfSize(3) :
    LET w == calls[i].waitingTiles
        equallySpaced ==
          /\ SameSuit(w) /\ w[1].suit \in NumeralSuits
          /\ LET ranks == {w[1].rank, w[2].rank, w[3].rank}
                 r1 == MinOf(ranks)
                 r3 == MaxOf(ranks)
                 r2 == CHOOSE r \in ranks : r # r1 /\ r # r3
             IN  r2 - r1 = r3 - r2
    IN  calls[i].value = IF equallySpaced THEN TENPAI_PATTERNS.SANMIAN ELSE DUOMIAN

\* the orders an array can be handed over in
OrdersOf(w) ==
  {[i \in DOMAIN w |-> w[p[i]]] :
     p \in {q \in [DOMAIN w -> DOMAIN w] : \A i, j \in DOMAIN w : q[i] = q[j] => i = j}}

GuardKindCount == 4

GuardMaxCopies == 5

GuardKindOrder == <<"wan1", "wan2", "wan3", "dong", "wan4", "nan">>

GuardKinds == {GuardKindOrder[i] : i \in 1..GuardKindCount}

\* 111m 222m 333m 44m 7p, as the specification writes its second example
Example2Hand ==
  Repeat(createTile(SUITS.WAN, 1), 3) \o Repeat(createTile(SUITS.WAN, 2), 3)
    \o Repeat(createTile(SUITS.WAN, 3), 3) \o Repeat(createTile(SUITS.WAN, 4), 2)
    \o <<createTile(SUITS.TONG, 7)>>

\* 111m 222m 333m 444m 7p: four triplets and one isolated tile
Example2HandOfThirteen ==
  Repeat(createTile(SUITS.WAN, 1), 3) \o Repeat(createTile(SUITS.WAN, 2), 3)
    \o Repeat(createTile(SUITS.WAN, 3), 3) \o Repeat(createTile(SUITS.WAN, 4), 3)
    \o <<createTile(SUITS.TONG, 7)>>

\* 123m 456m and one east
HonorWaitExampleHand ==
  [r \in 1..6 |-> createTile(SUITS.WAN, r)] \o <<createTile(SUITS.HONOR, "dong")>>

DetectInputs ==
  {HandFrom(f, GuardKindOrder) : f \in [GuardKinds -> 0..GuardMaxCopies]}
    \cup {Example2Hand, Example2HandOfThirteen, HonorWaitExampleHand}

\* the displaySize arguments tried with detectTenpai7Or10
GuardSizes == {7, 8, 10, 13}

\* the tileCount arguments tried with generateFallbackTenpaiHand
FallbackSizes == {7, 9, 10, 13}

InitDetect ==
  /\ pc = "call"
  /\ counts = <<>> /\ result = null
  /\ ArgIdle
  /\ \/ /\ op = "detectTenpai"
        /\ hand \in DetectInputs
        /\ displaySize = 13
        /\ GenIdle
     \/ /\ op = "detectTenpai7Or10"
        /\ hand \in DetectInputs
        /\ displaySize \in GuardSizes
        /\ GenIdle
     \/ /\ op = "generateFallbackTenpaiHand"
        /\ tileCount \in FallbackSizes
        /\ GenFresh
        /\ displaySize = 0
        /\ tape = <<>> /\ difficulty = null /\ maxAttempts = 0 /\ attempt = 0
        /\ selectedType = null /\ honorTripletsCount = 0

CallDetectTenpai7Or10 ==
  /\ op = "detectTenpai7Or10" /\ pc = "call"
  /\ result' = detectTenpai7Or10(hand, displaySize)
  /\ pc' = "done"
  /\ hand' = HandAfterDetectTenpai7Or10(hand)
  /\ UNCHANGED <<op, counts, displaySize>>
  /\ UNCHANGED <<argVars, genVars>>

CallGenerateFallbackTenpaiHand ==
  /\ op = "generateFallbackTenpaiHand" /\ pc = "call"
  /\ result' = generateFallbackTenpaiHand(tileCount)
  /\ hand' = generateFallbackTenpaiHand(tileCount).hand
  /\ pc' = "verify"
  /\ UNCHANGED <<op, counts, displaySize>>
  /\ UNCHANGED <<argVars, genVars>>

\* the detector the trainer then runs on the hand it was given
DetectFallback ==
  /\ op = "generateFallbackTenpaiHand" /\ pc = "verify"
  /\ detectResult' = MatchingDetector(hand, tileCount)
  /\ pc' = "done"
  /\ UNCHANGED <<fixedVars, hand, displaySize, result, rpos, attempt, selectedType,
                 honorTripletsCount, displayHand, shapeVars, meldVars, rankCounts,
                 waits>>

NextDetect ==
  \/ CallDetectTenpai
  \/ CallDetectTenpai7Or10
  \/ CallGenerateFallbackTenpaiHand
  \/ DetectFallback

SpecDetect == InitDetect /\ [][NextDetect]_vars

\* some kind is held more than 4 times
OverFour(h) ==
  \E i \in DOMAIN h : Cardinality({j \in DOMAIN h : h[j].id = h[i].id}) > 4

\* C14: detectTenpai returns {isTenpai: false, waitingTiles: [], tenpaiType:
\* null} on every hand whose length is not 13 and on every 13-tile hand
\* holding some kind more than 4 times; detectTenpai7Or10 returns the same
\* when displaySize is not 7 or 10, when the hand's length differs from
\* displaySize, or when some kind is held more than 4 times
C14_BadSizeOrFifthCopyIsNotTenpai ==
  /\ (op = "detectTenpai" /\ pc = "done" /\ (Len(hand) # 13 \/ OverFour(hand)))
       => result = [isTenpai |-> FALSE, waitingTiles |-> <<>>, tenpaiType |-> null]
  /\ (op = "detectTenpai7Or10" /\ pc = "done"
        /\ (displaySize \notin {7, 10} \/ Len(hand) # displaySize \/ OverFour(hand)))
       => result = [isTenpai |-> FALSE, waitingTiles |-> <<>>, tenpaiType |-> null]

\* a 13-tile hand with a kind held 5 times that would be one tile short of
\* complete was turned down
C14_Witness ==
  /\ op = "detectTenpai" /\ pc = "done"
  /\ Len(hand) = 13 /\ OverFour(hand)
  /\ \E k \in GuardKinds :
       HasPartition(Put(countTiles(hand), k, Get(countTiles(hand), k) + 1), 4)
  /\ ~result.isTenpai

\* C17: each of the three fixed fallback hands (7, 10, 13 tiles) has exactly
\* that many tiles, holds no kind more than 4 times, is tenpai by the
\* matching detector, and the detector's waiting set is exactly the declared
\* waitingTiles {tong4, tong7}
C17_FallbackHandsAreTenpai ==
  (op = "generateFallbackTenpaiHand" /\ pc = "done" /\ tileCount \in {7, 10, 13}) =>
    /\ Len(result.hand) = tileCount
    /\ ~OverFour(result.hand)
    /\ detectResult.isTenpai
    /\ WaitIds(detectResult) = {"tong4", "tong7"}
    /\ WaitIds(result) = {"tong4", "tong7"}
    /\ NoRepeat(detectResult.waitingTiles)

C17_Witness ==
  /\ op = "generateFallbackTenpaiHand" /\ pc = "done" /\ tileCount = 7
  /\ Len(hand) = 7 /\ detectResult.isTenpai

IsExample2Result(res) ==
  /\ res.isTenpai
  /\ WaitIds(res) = {"tong7"} /\ Len(res.waitingTiles) = 1
  /\ res.tenpaiType = TENPAI_PATTERNS.DANQI

\* C20 as written: detectTenpai on 111m 222m 333m 44m 7p returns
\* waitingTiles exactly {7p} and the label danqi
C20_Example2AsWritten ==
  (op = "detectTenpai" /\ pc = "done" /\ hand = Example2Hand) =>
    IsExample2Result(result)

\* C20: detectTenpai on the 13-tile hand 111m 222m 333m 444m 7p returns
\* waitingTiles exactly {7p} and the label danqi; on the 12 tiles
\* 111m 222m 333m 44m 7p it returns isTenpai false and no waiting tile
C20_Example2 ==
  (op = "detectTenpai" /\ pc = "done") =>
    /\ hand = Example2HandOfThirteen => IsExample2Result(result)
    /\ hand = Example2Hand => result = NotTenpai

C20_Witness ==
  /\ op = "detectTenpai" /\ pc = "done" /\ hand = Example2HandOfThirteen
  /\ result.isTenpai

(***************************************************************************)
(* The 10-tile mode of the discard trainer                                 *)
(***************************************************************************)
TenTileCall == HeqieDone /\ displaySize = 10 /\ Len(hand) = 10

\* C21: a 9-tile hand is never tenpai for detectTenpaiPartial(hand, 9): the
\* result is not tenpai with no waits for every 9-tile hand left by a
\* discard from a 10-tile hand.  So evaluateHeqieOptions(hand, 10) marks
\* every candidate not tenpai with no waits and no winning tile,
\* bestWinTileCount is 0 and bestDiscards is empty.
C21_TenTileModeHasNoBestDiscard ==
  TenTileCall =>
    /\ \A i \in DOMAIN hand :
         /\ Len(HandAfterDiscard(hand, hand[i])) = 9
         /\ detectTenpaiPartial(HandAfterDiscard(hand, hand[i]), 9) = NotTenpai
    /\ Len(result.candidates) >= 1
    /\ \A i \in DOMAIN result.candidates :
         /\ ~result.candidates[i].isTenpaiAfter
         /\ result.candidates[i].waitingTiles = <<>>
         /\ result.candidates[i].winTileCount = 0
    /\ result.bestWinTileCount = 0
    /\ result.bestDiscards = <<>>

\* a 10-tile hand with numeral tiles whose first seven tiles alone are
\* tenpai has been evaluated
C21_Witness ==
  /\ TenTileCall
  /\ Len(result.candidates) >= 3
  /\ detectTenpaiPartial(SubSeq(hand, 1, 7), 7).isTenpai

(***************************************************************************)
(* The waits of the 7- and 10-tile detectors                               *)
(***************************************************************************)
\* detectTenpai7Or10 has returned on a valid hand of displaySize 7 or 10
\* tiles holding a numeral tile
SmallHandDetected ==
  /\ op = "detectTenpai7Or10" /\ pc = "done"
  /\ displaySize \in {7, 10} /\ Len(hand) = displaySize
  /\ ~OverFour(hand)
  /\ SuitsOf(hand) # <<>>

\* the numeral kinds of the suits present in h
KindsOfPresentSuits(h) ==
  {TileId(SuitsOf(h)[i], r) : i \in DOMAIN SuitsOf(h), r \in 1..9}

\* C22: on a valid hand of 7 (10) tiles holding a numeral tile, a numeral
\* kind k of a suit present in the hand and held fewer than 4 times is among
\* the waits of detectTenpai7Or10 exactly when the hand plus one k is 2 (3)
\* melds and one pair; detectTenpaiPartial returns the same waiting set for a
\* 7-tile hand.
C22_SmallHandWaitsAreCompletingKinds ==
  SmallHandDetected =>
    LET handCounts == countTiles(hand)
        nMelds     == IF displaySize = 7 THEN 2 ELSE 3
    IN  /\ \A k \in KindsOfPresentSuits(hand) :
             Get(handCounts, k) < 4 =>
               (k \in WaitIds(result)
                  <=> HasPartition(Put(handCounts, k, Get(handCounts, k) + 1), nMelds))
        /\ displaySize = 7 =>
             /\ WaitIds(detectTenpaiPartial(hand, 7)) = WaitIds(result)
             /\ detectTenpaiPartial(hand, 7).isTenpai = result.isTenpai

\* a 7-tile and a 10-tile hand with a wait held fewer than 4 times and a
\* numeral kind that is no wait
C22_Witness ==
  /\ SmallHandDetected
  /\ result.isTenpai
  /\ \E k \in WaitIds(result) : Get(countTiles(hand), k) < 4
  /\ \E k \in KindsOfPresentSuits(hand) : k \notin WaitIds(result)

C22_WitnessOfTen == C22_Witness /\ displaySize = 10

\* a detector has returned on a valid hand of the size it is for
DetectorDone ==
  /\ pc = "done" /\ ~OverFour(hand)
  /\ \/ op = "detectTenpai" /\ Len(hand) = 13
     \/ op = "detectTenpai7Or10" /\ displaySize \in {7, 10} /\ Len(hand) = displaySize

\* the honor kinds h holds
HonorKindsOf(h) == {h[i].id : i \in {j \in DOMAIN h : h[j].suit = SUITS.HONOR}}

\* C23: every detector tries the honor kinds of a hand that holds honor tiles:
\* an honor kind of the hand, held fewer than 4 times, whose insertion
\* completes the melds and the pair is among the waits of detectTenpai,
\* of detectTenpai7Or10 and of detectTenpaiPartial; the 7-tile hand 123m 456m
\* and one east is tenpai with east among its waits.
C23_HonorKindsAreCandidates ==
  DetectorDone =>
    LET handCounts == countTiles(hand)
        nMelds     == (Len(hand) - 1) \div 3
    IN  \A k \in HonorKindsOf(hand) :
          (/\ Get(handCounts, k) < 4
           /\ HasPartition(Put(handCounts, k, Get(handCounts, k) + 1), nMelds))
            => /\ result.isTenpai
               /\ k \in WaitIds(result)
               /\ Len(hand) = 7 => k \in WaitIds(detectTenpaiPartial(hand, 7))

(***************************************************************************)
(* The candidates of evaluateHeqieOptions                                  *)
(***************************************************************************)
\* the kinds h holds
KindsHeld(h) == {h[i].id : i \in DOMAIN h}

\* h without its tile at position i
WithoutTileAt(h, i) == SubSeq(h, 1, i - 1) \o SubSeq(h, i + 1, Len(h))

\* the last position of kind k in h
LastOf(h, k) ==
  CHOOSE i \in DOMAIN h :
    h[i].id = k /\ \A j \in DOMAIN h : h[j].id = k => j <= i

\* the detector evaluateHeqieOptions runs on a hand of 13, 9 or 7 tiles
DetectorAfterDiscard(h) ==
  IF Len(h) = 13 THEN detectTenpai13(h)
  ELSE IF Len(h) \in {7, 9} THEN detectTenpaiPartial(h, Len(h))
  ELSE NotTenpai

\* C24: evaluateHeqieOptions returns exactly one candidate per distinct kind
\* of the hand, and the candidate of a kind is evaluated on the hand with
\* exactly one tile of that kind removed: displaySize - 1 tiles, every other
\* count unchanged.
C24_OneCandidatePerKind ==
  (HeqieDone /\ SizeMatches) =>
    /\ Len(result.candidates) = Cardinality(KindsHeld(hand))
    /\ {result.candidates[i].discardTile.id : i \in DOMAIN result.candidates}
         = KindsHeld(hand)
    /\ \A i \in DOMAIN result.candidates :
         LET c     == result.candidates[i]
             k     == c.discardTile.id
             after == HandAfterDiscard(hand, c.discardTile)
             other == WithoutTileAt(hand, LastOf(hand, k))
             found == DetectorAfterDiscard(other)
         IN  /\ Len(after) = displaySize - 1
             /\ \A id \in KindsHeld(hand) :
                  Get(countTiles(after), id)
                    = Get(countTiles(hand), id) - (IF id = k THEN 1 ELSE 0)
             /\ c.isTenpaiAfter = found.isTenpai
             /\ {c.waitingTiles[j].id : j \in DOMAIN c.waitingTiles}
                  = WaitIds(found)
             /\ c.winTileCount
                  = IF c.isTenpaiAfter
                      THEN calculateWinTileCount(other, c.waitingTiles)
                    ELSE 0

\* a hand holding some kind several times, with a tenpai candidate for a kind
\* held more than once
C24_Witness ==
  /\ HeqieDone /\ SizeMatches
  /\ Len(result.candidates) >= 3
  /\ \E i \in DOMAIN result.candidates :
       /\ result.candidates[i].isTenpaiAfter
       /\ Get(countTiles(hand), result.candidates[i].discardTile.id) >= 2

\* C27: bestDiscards is non-empty exactly when some candidate is tenpai
\* after its discard, and every tenpai candidate has winTileCount >= 1, so
\* that bestWinTileCount > 0 whenever bestDiscards is non-empty.
C27_TenpaiCandidatesHaveWinningTiles ==
  (HeqieDone /\ SizeMatches) =>
    /\ (result.bestDiscards # <<>>)
         <=> (\E i \in DOMAIN result.candidates : result.candidates[i].isTenpaiAfter)
    /\ \A i \in DOMAIN result.candidates :
         result.candidates[i].isTenpaiAfter => result.candidates[i].winTileCount >= 1
    /\ result.bestDiscards # <<>> => result.bestWinTileCount > 0

(***************************************************************************)
(* The three decomposers                                                   *)
(***************************************************************************)
\* the map c restricted to the kinds of keep
Restrict(c, keep) == [k \in (DOMAIN c) \cap keep |-> c[k]]

\* C25: on every 14-tile map canWin(counts) equals
\* canFormTenpaiStructure(counts, 4, true), and the decomposer of
\* tenpai-utils.js and its copy in heqie-utils.js return the same value for
\* every map (the 14-tile map and the maps of fewer tiles made of some of
\* its kinds) and every targetMelds of 2, 3 and 4.
C25_DecomposersAgree ==
  (op = "canWin" /\ pc = "done") =>
    /\ result = canFormTenpaiStructure(counts, 4, TRUE)
    /\ \A keep \in SUBSET (DOMAIN counts) :
         \A t \in 2..4 :
           canFormTenpaiStructure(Restrict(counts, keep), t, TRUE)
             = heqie_canFormTenpaiStructure(Restrict(counts, keep), t, TRUE)

\* a winning 14-tile map with a run, one part of which is 2 melds and a
\* pair and another 3 melds and a pair
C25_Witness ==
  /\ op = "canWin" /\ pc = "done" /\ result
  /\ \E id \in DOMAIN counts : IsNumeralId(id) /\ counts[id] = 1
  /\ \E keep \in SUBSET (DOMAIN counts) :
       heqie_canFormTenpaiStructure(Restrict(counts, keep), 2, TRUE)
  /\ \E keep \in SUBSET (DOMAIN counts) :
       heqie_canFormTenpaiStructure(Restrict(counts, keep), 3, TRUE)

(***************************************************************************)
(* SpecAnalysis: the six analysis calls side by side, each on the inputs   *)
(* of its own specification above.                                         *)
(***************************************************************************)
InitAnalysis ==
  \/ InitWin
  \/ InitDecompose
  \/ InitTenpai
  \/ InitDetect /\ op = "detectTenpai7Or10"
  \/ InitHeqie

NextAnalysis ==
  \/ CallCanWin
  \/ CallCanFormTenpaiStructure
  \/ CallHeqieCanFormTenpaiStructure
  \/ CallDetectTenpai
  \/ CallDetectTenpai7Or10
  \/ CallEvaluateHeqieOptions

SpecAnalysis == InitAnalysis /\ [][NextAnalysis]_vars

C28_ReturnedLabelIsLabelOfReturnedWaits ==
  HandDone => result.tenpaiType = getTenpaiType(result.waitingTiles, result.hand)

\* the attempt under decision is short: its constructor built fewer numeral
\* tiles than tileCount
ShortAttempt == pc = "decide" /\ Len(displayHand) < tileCount

C29_WitnessReturned ==
  /\ HandDone /\ attempt < maxAttempts
  /\ result.hand = displayHand /\ Len(result.hand) = tileCount

(***************************************************************************)
(* timer.js: createTimer.  The host runs one task at a time: a method call *)
(* or one callback of an interval, each to its end.  onTick and onFinish   *)
(* are the caller's functions; here they do not call the timer themselves. *)
(* Time is Date.now() in milliseconds and moves in steps of half a second  *)
(* between tasks; an interval may fire at any moment while it is active.   *)
(***************************************************************************)
MaxClockSteps == 6

MaxIntervals == 4

\* the duration options: 0 counts up without a limit, the others count down
Durations == {0, 1, 2}

\* a slip in the release of an interval: the host keeps running it
clearIntervalKeepsIt(active, handle) == active

\* clearInterval(handle): the host stops running that interval; a handle that
\* is not active is ignored
clearInterval(active, handle) == active \ {handle}

\* Date.now() - (elapsed * 1000)
StartTimeFor(t, e) == <<t - (e * 1000)>>

\* Math.floor((Date.now() - startTime) / 1000)
ElapsedAt(t, start) == (t - start[1]) \div 1000

otherVars == <<op, pc, counts, hand, displaySize, result, targetMeldsArg,
               waitingTilesArg, calls, genVars>>

InitTimer ==
  /\ op = "createTimer" /\ pc = "created"
  /\ duration \in Durations
  /\ TimerCreated
  /\ counts = <<>> /\ hand = <<>> /\ displaySize = 0 /\ result = null
  /\ targetMeldsArg = 0 /\ waitingTilesArg = <<>> /\ calls = <<>>
  /\ GenIdle

\* time passes between two tasks
ClockAdvances ==
  /\ op = "createTimer"
  /\ now < 500 * MaxClockSteps
  /\ now' = now + 500
  /\ UNCHANGED <<otherVars, duration, startTime, elapsed, intervalId, isRunning,
                 isPaused, intervals, nextHandle, finishCalls, finishSeenRunning>>

TimerStart ==
  /\ op = "createTimer"
  /\ IF isRunning
       THEN UNCHANGED timerVars
     ELSE /\ nextHandle <= MaxIntervals
          /\ startTime' = StartTimeFor(now, elapsed)
          /\ isRunning' = TRUE
          /\ isPaused' = FALSE
          /\ intervalId' = nextHandle
          /\ intervals' = intervals \cup {nextHandle}
          /\ nextHandle' = nextHandle + 1
          /\ finishCalls' = 0
          /\ UNCHANGED <<duration, elapsed, now, finishSeenRunning>>
  /\ UNCHANGED otherVars

TimerPause ==
  /\ op = "createTimer"
  /\ IF ~isRunning \/ isPaused
       THEN UNCHANGED timerVars
     ELSE /\ intervals' = clearInterval(intervals, intervalId)
          /\ elapsed' = ElapsedAt(now, startTime)
          /\ isPaused' = TRUE
          /\ isRunning' = FALSE
          /\ UNCHANGED <<duration, startTime, intervalId, now, nextHandle,
                         finishCalls, finishSeenRunning>>
  /\ UNCHANGED otherVars

TimerResume ==
  /\ op = "createTimer"
  /\ IF ~isPaused
       THEN UNCHANGED timerVars
     ELSE /\ nextHandle <= MaxIntervals
          /\ startTime' = StartTimeFor(now, elapsed)
          /\ isPaused' = FALSE
          /\ isRunning' = TRUE
          /\ intervalId' = nextHandle
          /\ intervals' = intervals \cup {nextHandle}
          /\ nextHandle' = nextHandle + 1
          /\ UNCHANGED <<duration, elapsed, now, finishCalls, finishSeenRunning>>
  /\ UNCHANGED otherVars

\* what stop() leaves in intervals and intervalId
IntervalsAfterStop ==
  IF intervalId # 0 THEN clearInterval(intervals, intervalId) ELSE intervals

TimerStop ==
  /\ op = "createTimer"
  /\ intervals' = IntervalsAfterStop
  /\ intervalId' = 0
  /\ isRunning' = FALSE
  /\ isPaused' = FALSE
  /\ UNCHANGED <<duration, startTime, elapsed, now, nextHandle, finishCalls,
                 finishSeenRunning>>
  /\ UNCHANGED otherVars

TimerReset ==
  /\ op = "createTimer"
  /\ intervals' = IntervalsAfterStop
  /\ intervalId' = 0
  /\ isRunning' = FALSE
  /\ isPaused' = FALSE
  /\ startTime' = <<>>
  /\ elapsed' = 0
  /\ UNCHANGED <<duration, now, nextHandle, finishCalls, finishSeenRunning>>
  /\ UNCHANGED otherVars

\* the callback of an active interval runs: the one start() made or the one
\* resume() made, which are the same code
TimerTick ==
  /\ op = "createTimer"
  /\ \E handle \in intervals :
       LET seconds   == ElapsedAt(now, startTime)
           remaining == Max(0, duration - seconds)
       IN  /\ elapsed' = seconds
           /\ IF duration > 0 /\ remaining = 0
                THEN \* timer.stop(), then onFinish()
                     /\ intervals' = IntervalsAfterStop
                     /\ intervalId' = 0
                     /\ isRunning' = FALSE
                     /\ isPaused' = FALSE
                     /\ finishCalls' = finishCalls + 1
                     /\ finishSeenRunning' =
                          (finishSeenRunning \/ IntervalsAfterStop # {})
                ELSE UNCHANGED <<intervals, intervalId, isRunning, isPaused,
                                 finishCalls, finishSeenRunning>>
  /\ UNCHANGED <<duration, startTime, now, nextHandle>>
  /\ UNCHANGED otherVars

NextTimer ==
  \/ ClockAdvances
  \/ TimerStart
  \/ TimerPause
  \/ TimerResume
  \/ TimerStop
  \/ TimerReset
  \/ TimerTick

SpecTimer == InitTimer /\ [][NextTimer]_vars

\* C30: after any sequence of start, pause, resume, stop and reset with the
\* callbacks of the interval running in between, the timer has at most one
\* active interval, isRunning and isPaused are never both true, an interval
\* is active exactly when isRunning is true, and onFinish of a countdown has
\* been called at most once since the timer was started and only with the
\* timer stopped.
C30_OneIntervalWhileRunning ==
  op = "createTimer" =>
    /\ Cardinality(intervals) <= 1
    /\ ~(isRunning /\ isPaused)
    /\ (intervals # {}) <=> isRunning
    /\ intervals # {} => intervals = {intervalId}
    /\ finishCalls <= 1
    /\ ~finishSeenRunning
    /\ duration = 0 => finishCalls = 0

\* a countdown that was paused and resumed has finished and stopped itself
C30_Witness ==
  /\ op = "createTimer" /\ duration > 0
  /\ finishCalls = 1 /\ nextHandle >= 3
  /\ ~isRunning /\ ~isPaused /\ intervals = {} /\ intervalId = 0
  /\ elapsed >= duration

====
